---------------------------- MODULE Spec2Model ----------------------------
(***************************************************************************)
(* State-machine model of the SCAG I-5 calculation pipeline                *)
(* (src/src/utils.py, aadt_calculator.py, peak_hour_analyzer.py,           *)
(* capacity_analyzer.py, truck_analyzer.py).                               *)
(*                                                                         *)
(* Numbers.  Every numeric column of the program is a pandas float64       *)
(* column and every scalar a Python float, so each arithmetic operation    *)
(* returns the correctly rounded result (IEEE 754, round to nearest, ties  *)
(* to even).  The model keeps that behaviour in a binary floating-point    *)
(* format of the same shape but with a short significand of Prec bits.     *)
(* A float is carried as its bit pattern read as an integer, as in         *)
(* IEEE 754: 0 is zero, and the positive float m * 2^q with significand    *)
(* 2^(Prec-1) <= m < 2^Prec is (q + ExpBias) * 2^(Prec-1) + (m - 2^(Prec-1)) *)
(* + 1; a negative float is the negated pattern.  Patterns are ordered as  *)
(* the values are, and neighbouring floats have neighbouring patterns.     *)
(* Sums, differences, products and quotients are computed exactly and then *)
(* rounded to the format, as the hardware does.  Not-a-number and infinity *)
(* are carried by the "extended" values used where the program can produce *)
(* them (the V/C ratio and scalar inputs).                                 *)
(***************************************************************************)
EXTENDS Integers, Sequences, FiniteSets, TLC

\* Significand width of the modelled binary floating-point format.
Prec == 10
\* The last significand bit of the smallest positive float weighs 2^-ExpBias.
ExpBias == 40

Pow2(n) == IF n <= 0 THEN 1 ELSE 2 ^ n

\* Number of significant bits of n >= 0, and number of trailing zero bits of
\* n > 0 (the integers of the kernel are below 2^31).
BitLen(n) == Cardinality({k \in 0..30 : 2 ^ k <= n})
TrailingZeros(n) == Cardinality({k \in 1..30 : n % (2 ^ k) = 0})

Abs(n) == IF n < 0 THEN -n ELSE n
Sign(n) == IF n < 0 THEN -1 ELSE 1

\* The smallest normalised significand.
MinSig == Pow2(Prec - 1)

\* Significand and exponent (of the last significand bit) of a non-zero float.
Sig(c) == MinSig + ((Abs(c) - 1) % MinSig)
Exp(c) == ((Abs(c) - 1) \div MinSig) - ExpBias

\* The pattern of m * 2^q for MinSig <= m <= 2 * MinSig (the upper end is the
\* carry into the next exponent).
Enc(m, q) == (q + ExpBias) * MinSig + (m - MinSig) + 1

\* Round to nearest, ties to even: keep is the retained significand, rem the
\* dropped bits, half the weight of half a unit in the last place.
RoundKeep(keep, rem, half, sticky) ==
    keep + (IF rem > half \/ (rem = half /\ (sticky \/ keep % 2 = 1)) THEN 1 ELSE 0)

\* Drop the d low bits of n and round (d <= 0: n is widened, exactly).
RoundAt(n, q, sticky, d) ==
    IF d <= 0 THEN Enc(n * Pow2(-d), q + d)
    ELSE Enc(RoundKeep(n \div Pow2(d), n % Pow2(d), Pow2(d - 1), sticky), q + d)

\* The float nearest to (n + delta) * 2^q, where n > 0, 0 <= delta < 1 and
\* delta > 0 iff sticky.
RoundSig(n, q, sticky) == RoundAt(n, q, sticky, BitLen(n) - Prec)

\* The float nearest to the signed value n * 2^q.
FRound(n, q) == IF n = 0 THEN 0 ELSE Sign(n) * RoundSig(Abs(n), q, FALSE)

\* n * 2^q is a float of the format: it has at most Prec significant bits.
IsFloat(n, q) == n = 0 \/ BitLen(Abs(n)) - TrailingZeros(Abs(n)) <= Prec

\* float64 "+": the operand a has the larger exponent, by d.  An operand more
\* than Prec + 2 bits below the other cannot change the rounded result.
AddAligned(a, b, d) ==
    IF d > Prec + 2 THEN a
    ELSE FRound(Sign(a) * Sig(a) * Pow2(d) + Sign(b) * Sig(b), Exp(b))

FAdd(a, b) ==
    IF a = 0 THEN b
    ELSE IF b = 0 THEN a
    ELSE IF Exp(a) >= Exp(b) THEN AddAligned(a, b, Exp(a) - Exp(b))
    ELSE AddAligned(b, a, Exp(b) - Exp(a))

\* float64 "-".
FSub(a, b) == FAdd(a, -b)

\* The exact sum a + b is a float: adding them rounds nothing away.
ExactAligned(a, b, d) ==
    d <= Prec + 2 /\ IsFloat(Sign(a) * Sig(a) * Pow2(d) + Sign(b) * Sig(b), Exp(b))
ExactAdd(a, b) ==
    \/ a = 0
    \/ b = 0
    \/ Exp(a) >= Exp(b) /\ ExactAligned(a, b, Exp(a) - Exp(b))
    \/ Exp(a) < Exp(b) /\ ExactAligned(b, a, Exp(b) - Exp(a))
ExactSub(a, b) == ExactAdd(a, -b)

\* float64 "*".
FMul(a, b) ==
    IF a = 0 \/ b = 0 THEN 0
    ELSE Sign(a) * Sign(b) * RoundSig(Sig(a) * Sig(b), Exp(a) + Exp(b), FALSE)

\* float64 "/" (divisor non-zero): the quotient of the significands with two
\* guard bits, the remainder kept as the sticky bit.
DivSig(na, nb, q) == RoundSig(na \div nb, q, na % nb # 0)
FDiv(a, b) ==
    IF a = 0 THEN 0
    ELSE Sign(a) * Sign(b)
           * DivSig(Sig(a) * Pow2(Prec + 2), Sig(b), Exp(a) - Exp(b) - (Prec + 2))

\* Left-to-right float sum of the sequence s, starting from 0.
FSum(s) ==
    LET acc[n \in 0..Len(s)] == IF n = 0 THEN 0 ELSE FAdd(acc[n - 1], s[n])
    IN  acc[Len(s)]

\* The float a Python literal denotes: the integer n, and the decimal n/d.
FInt(n) == FRound(n, 0)
FLit(n, d) == FDiv(FInt(n), FInt(d))

(***************************************************************************)
(* Extended values: a float64 that may be not-a-number or infinite.        *)
(***************************************************************************)
NaN == [kind |-> "nan", v |-> 0]
PosInf == [kind |-> "inf", v |-> 1]
NegInf == [kind |-> "inf", v |-> -1]
Fin(x) == [kind |-> "num", v |-> x]

\* pd.isna
IsNaN(x) == x.kind = "nan"
IsInf(x) == x.kind = "inf"
IsFin(x) == x.kind = "num"

\* float64 comparisons: every comparison with NaN is False.
XLe(x, y) ==
    /\ ~IsNaN(x) /\ ~IsNaN(y)
    /\ \/ IsFin(x) /\ IsFin(y) /\ x.v <= y.v
       \/ IsInf(x) /\ x.v < 0
       \/ IsInf(y) /\ y.v > 0
XLt(x, y) == XLe(x, y) /\ x # y
XGt(x, y) == XLt(y, x)

\* float64 division of extended values (divisor never zero where it is used).
XDiv(x, y) ==
    IF IsNaN(x) \/ IsNaN(y) \/ (IsInf(x) /\ IsInf(y)) THEN NaN
    ELSE IF IsInf(x) THEN (IF Sign(y.v) = x.v THEN PosInf ELSE NegInf)
    ELSE IF IsInf(y) THEN Fin(0)
    ELSE Fin(FDiv(x.v, y.v))

(***************************************************************************)
(* config.py                                                               *)
(***************************************************************************)
AM_PEAK_FACTOR == FLit(40, 100)
PM_PEAK_FACTOR == FLit(30, 100)

AUTO_PCE == FLit(10, 10)
LHDT_PCE == FLit(15, 10)
MHDT_PCE == FLit(20, 10)
HHDT_PCE == FLit(25, 10)
TRUCK_PCE_AVG == FDiv(FAdd(FAdd(LHDT_PCE, MHDT_PCE), HHDT_PCE), FInt(3))

CAPACITY_PER_LANE == FInt(2000)

\* The dict keeps insertion order: A, B, C, D, E, F.
LOS_THRESHOLDS ==
    << [grade |-> "A", threshold |-> Fin(FLit(35, 100))],
       [grade |-> "B", threshold |-> Fin(FLit(54, 100))],
       [grade |-> "C", threshold |-> Fin(FLit(77, 100))],
       [grade |-> "D", threshold |-> Fin(FLit(93, 100))],
       [grade |-> "E", threshold |-> Fin(FLit(100, 100))],
       [grade |-> "F", threshold |-> PosInf] >>

AM_FIELDS == [auto  |-> <<"AB_FLOW_DA", "AB_FLOW_SR", "AB_FLOW_S1">>,
              truck |-> <<"AB_FLOW_LI", "AB_FLOW_ME", "AB_FLOW_HE">>]
PM_FIELDS == [auto  |-> <<"AB_FLOW_D1", "AB_FLOW_S4", "AB_FLOW_S5">>,
              truck |-> <<"AB_FLOW_L1", "AB_FLOW_M1", "AB_FLOW_H1">>]
MD_FIELDS == [auto  |-> <<"AB_FLOW_D2", "AB_FLOW_S8", "AB_FLOW_S9">>,
              truck |-> <<"AB_FLOW_L2", "AB_FLOW_M2", "AB_FLOW_H2">>]
EVE_FIELDS == [auto  |-> <<"AB_FLOW_D3", "AB_FLOW_12", "AB_FLOW_13">>,
               truck |-> <<"AB_FLOW_L3", "AB_FLOW_M3", "AB_FLOW_H3">>]
NT_FIELDS == [auto  |-> <<"AB_FLOW_D4", "AB_FLOW_16", "AB_FLOW_17">>,
              truck |-> <<"AB_FLOW_L4", "AB_FLOW_M4", "AB_FLOW_H4">>]

PERIOD_FIELDS == [AM |-> AM_FIELDS, PM |-> PM_FIELDS, MD |-> MD_FIELDS,
                  EVE |-> EVE_FIELDS, NT |-> NT_FIELDS]

LANE_FIELDS == [AM |-> "AB_AMLANES", PM |-> "AB_PMLANES", MD |-> "AB_MDLANES",
                EVE |-> "AB_EVELANE", NT |-> "AB_NTLANES"]

DIRECTION_FIELD == "DIRECT"
TYPE_FIELD == "TYPE"

Range(s) == {s[i] : i \in DOMAIN s}

AllPeriods == {"AM", "PM", "MD", "EVE", "NT"}
FlowCols == UNION {Range(PERIOD_FIELDS[p].auto) \cup Range(PERIOD_FIELDS[p].truck) :
                   p \in AllPeriods}
LaneCols == {LANE_FIELDS[p] : p \in AllPeriods}

(***************************************************************************)
(* utils.py: scalar functions                                              *)
(***************************************************************************)
\* Variant: the thresholds are exclusive upper bounds.
get_los_from_vc_exclusive(vc_ratio) ==
    LET loop[i \in 1..(Len(LOS_THRESHOLDS) + 1)] ==
            IF i > Len(LOS_THRESHOLDS) THEN "F"
            ELSE IF XLt(vc_ratio, LOS_THRESHOLDS[i].threshold)
                 THEN LOS_THRESHOLDS[i].grade
                 ELSE loop[i + 1]
    IN  IF IsNaN(vc_ratio) THEN "N/A" ELSE loop[1]

\* Variant: the comparison is turned round, the first threshold not above
\* vc_ratio wins.
get_los_from_vc_reversed(vc_ratio) ==
    LET loop[i \in 1..(Len(LOS_THRESHOLDS) + 1)] ==
            IF i > Len(LOS_THRESHOLDS) THEN "F"
            ELSE IF XLe(LOS_THRESHOLDS[i].threshold, vc_ratio)
                 THEN LOS_THRESHOLDS[i].grade
                 ELSE loop[i + 1]
    IN  IF IsNaN(vc_ratio) THEN "N/A" ELSE loop[1]

\* Variant: no pd.isna test; every comparison with NaN is False, so the loop
\* falls through to "F".
get_los_from_vc_unchecked(vc_ratio) ==
    LET loop[i \in 1..(Len(LOS_THRESHOLDS) + 1)] ==
            IF i > Len(LOS_THRESHOLDS) THEN "F"
            ELSE IF XLe(vc_ratio, LOS_THRESHOLDS[i].threshold)
                 THEN LOS_THRESHOLDS[i].grade
                 ELSE loop[i + 1]
    IN  loop[1]

\* get_los_from_vc: the loop over LOS_THRESHOLDS.items() in insertion order
\* returns the first grade whose threshold is not below vc_ratio.
get_los_from_vc(vc_ratio) ==
    LET loop[i \in 1..(Len(LOS_THRESHOLDS) + 1)] ==
            IF i > Len(LOS_THRESHOLDS) THEN "F"
            ELSE IF XLe(vc_ratio, LOS_THRESHOLDS[i].threshold)
                 THEN LOS_THRESHOLDS[i].grade
                 ELSE loop[i + 1]
    IN  IF IsNaN(vc_ratio) THEN "N/A" ELSE loop[1]

\* Result of a call that may raise: [status |-> "ok", value |-> v] or
\* [status |-> "ValueError"] / [status |-> "KeyError"].
Ok(v) == [status |-> "ok", value |-> v]
Raise(e) == [status |-> e, value |-> 0]

\* Variant: the two peaking factors are exchanged.
calculate_peak_hour_flow_swapped(period_flow, period) ==
    IF period = "AM" THEN Ok(FMul(period_flow, PM_PEAK_FACTOR))
    ELSE IF period = "PM" THEN Ok(FMul(period_flow, AM_PEAK_FACTOR))
    ELSE Raise("ValueError")

\* Variant: a period that is neither AM nor PM gets the AM factor.
calculate_peak_hour_flow_default(period_flow, period) ==
    IF period = "PM" THEN Ok(FMul(period_flow, PM_PEAK_FACTOR))
    ELSE Ok(FMul(period_flow, AM_PEAK_FACTOR))

calculate_peak_hour_flow(period_flow, period) ==
    IF period = "AM" THEN Ok(FMul(period_flow, AM_PEAK_FACTOR))
    ELSE IF period = "PM" THEN Ok(FMul(period_flow, PM_PEAK_FACTOR))
    ELSE Raise("ValueError")

\* Variant: the total flow plus the weighted truck flow.
calculate_pce_flow_double(total_flow, truck_flow) ==
    FAdd(total_flow, FMul(truck_flow, TRUCK_PCE_AVG))

calculate_pce_flow(total_flow, truck_flow) == FAdd(total_flow, truck_flow)

calculate_capacity(num_lanes) == FMul(num_lanes, CAPACITY_PER_LANE)

\* Variant: no guard on the capacity; float64 division by zero gives an
\* infinity for a non-zero flow and NaN for a zero flow.
calculate_vc_ratio_unguarded(pce_flow, capacity) ==
    IF capacity = Fin(0)
    THEN (IF IsNaN(pce_flow) \/ pce_flow = Fin(0) THEN NaN
          ELSE IF XGt(pce_flow, Fin(0)) THEN PosInf ELSE NegInf)
    ELSE XDiv(pce_flow, capacity)

\* The scalar branch of calculate_vc_ratio (capacity is not a Series).
calculate_vc_ratio(pce_flow, capacity) ==
    IF XGt(capacity, Fin(0)) THEN XDiv(pce_flow, capacity) ELSE NaN

\* Variant: a zero capacity gives a ratio of zero.
calculate_vc_ratio_series_zero(pce_flow, capacity) ==
    IF capacity = Fin(0) THEN Fin(0) ELSE XDiv(pce_flow, capacity)

\* The Series branch, for one element: pce_flow.divide(capacity.replace(0, nan)).
calculate_vc_ratio_series(pce_flow, capacity) ==
    XDiv(pce_flow, IF capacity = Fin(0) THEN NaN ELSE capacity)

(***************************************************************************)
(* utils.py: table functions, for one row of the DataFrame                 *)
(***************************************************************************)
\* df[fields].sum(axis=1) for one row: the fields added left to right.
RowSum(row, fields) == FSum([i \in 1..Len(fields) |-> row[fields[i]]])

\* calculate_period_flow for a valid period and flow_type.
calculate_period_flow(row, period, flow_type) ==
    IF flow_type = "total"
    THEN FAdd(RowSum(row, PERIOD_FIELDS[period].auto),
              RowSum(row, PERIOD_FIELDS[period].truck))
    ELSE RowSum(row, PERIOD_FIELDS[period][flow_type])

\* The order in which calculate_aadt adds the period flows.
AADTPeriods == <<"AM", "PM", "MD", "EVE", "NT">>

\* am + pm + md + eve + nt of one flow type, added left to right.
DailyFlow(row, flow_type) ==
    FSum([i \in 1..Len(AADTPeriods) |->
              calculate_period_flow(row, AADTPeriods[i], flow_type)])

\* The tuple calculate_aadt returns, given its total and truck sums.
AadtTuple(total_aadt, truck_aadt) ==
    [total |-> total_aadt, auto |-> FSub(total_aadt, truck_aadt), truck |-> truck_aadt]

\* Variant: auto AADT summed independently from the auto flow fields.
calculate_aadt_independent(row) ==
    [total |-> DailyFlow(row, "total"), auto |-> DailyFlow(row, "auto"),
     truck |-> DailyFlow(row, "truck")]

\* calculate_aadt for one row: (total_aadt, auto_aadt, truck_aadt).
calculate_aadt(row) == AadtTuple(DailyFlow(row, "total"), DailyFlow(row, "truck"))

(***************************************************************************)
(* The table.  df is the analyzer's DataFrame self.df: a sequence of rows, *)
(* each row a function from column name to value; columns is df.columns.   *)
(* Every analyzer copies the table it is constructed with, and every stage *)
(* returns its self.df, which the caller hands to the next analyzer (as    *)
(* tests/test_truck_analyzer.py does): an operation of the model is        *)
(* "construct the analyzer on the current table and call the method", and  *)
(* the table it leaves in self.df becomes the current table.               *)
(* ret is what the last call returned or raised.                           *)
(***************************************************************************)
VARIABLES df, columns, ret

vars == <<df, columns, ret>>

\* self.df[c] = values: the column is added (or overwritten) in every row.
SetCol(row, c, v) == (c :> v) @@ row

\* What a method leaves behind: the table and the outcome of the call.
Outcome(d, cs, op, args, status, value) ==
    [df |-> d, columns |-> cs,
     ret |-> [op |-> op, args |-> args, status |-> status, value |-> value]]

(***************************************************************************)
(* aadt_calculator.py                                                      *)
(***************************************************************************)
\* Variant: the ratio is left as a fraction, not multiplied by 100.
TruckPctFraction(total_aadt, truck_aadt) ==
    IF total_aadt > 0 THEN FDiv(truck_aadt, total_aadt) ELSE 0

\* Variant: the truck share is taken in passenger-car equivalents.
TruckPctPce(total_aadt, truck_aadt) ==
    IF total_aadt > 0
    THEN FMul(FDiv(FMul(truck_aadt, TRUCK_PCE_AVG), total_aadt), FInt(100)) ELSE 0

\* np.where(TOTAL_AADT > 0, (TRUCK_AADT / TOTAL_AADT) * 100, 0) for one row.
TruckPct(total_aadt, truck_aadt) ==
    IF total_aadt > 0 THEN FMul(FDiv(truck_aadt, total_aadt), FInt(100)) ELSE 0

\* The three columns assigned from the tuple a that calculate_aadt returned.
SetAadt(row, a) ==
    SetCol(SetCol(SetCol(row, "TOTAL_AADT", a.total), "AUTO_AADT", a.auto),
           "TRUCK_AADT", a.truck)

\* TRUCK_PCT is computed from the columns just assigned.
SetTruckPct(row) ==
    SetCol(row, "TRUCK_PCT", TruckPct(row["TOTAL_AADT"], row["TRUCK_AADT"]))

AADTRow(row) == SetTruckPct(SetAadt(row, calculate_aadt(row)))

AADTColumns == {"TOTAL_AADT", "AUTO_AADT", "TRUCK_AADT", "TRUCK_PCT"}

calculate_segment_aadt(d, cs) ==
    IF ~(FlowCols \subseteq cs)
    THEN Outcome(d, cs, "calculate_segment_aadt", <<>>, "KeyError", 0)
    ELSE Outcome([i \in 1..Len(d) |-> AADTRow(d[i])], cs \cup AADTColumns,
                 "calculate_segment_aadt", <<>>, "ok", 0)

(***************************************************************************)
(* peak_hour_analyzer.py                                                   *)
(***************************************************************************)
PeakCol(period, flow_type) ==
    period \o "_PEAK_" \o (CASE flow_type = "total" -> "TOTAL"
                             [] flow_type = "auto"  -> "AUTO"
                             [] flow_type = "truck" -> "TRUCK")

\* Variant: a peak column that is already there is scaled in place.
PeakStepInPlace(row, period, flow_type) ==
    IF PeakCol(period, flow_type) \in DOMAIN row
    THEN SetCol(row, PeakCol(period, flow_type),
                calculate_peak_hour_flow(row[PeakCol(period, flow_type)], period).value)
    ELSE SetCol(row, PeakCol(period, flow_type),
                calculate_peak_hour_flow(calculate_period_flow(row, period, flow_type),
                                         period).value)

\* One pass of the loop body: the column for (period, flow_type) is set.
PeakStep(row, period, flow_type) ==
    SetCol(row, PeakCol(period, flow_type),
           calculate_peak_hour_flow(calculate_period_flow(row, period, flow_type),
                                    period).value)

\* The (period, flow_type) pairs in the order the nested loops visit them.
PeakLoop ==
    <<<<"AM", "total">>, <<"AM", "auto">>, <<"AM", "truck">>,
      <<"PM", "total">>, <<"PM", "auto">>, <<"PM", "truck">>>>

PeakRow(row) ==
    LET after[n \in 0..Len(PeakLoop)] ==
            IF n = 0 THEN row ELSE PeakStep(after[n - 1], PeakLoop[n][1], PeakLoop[n][2])
    IN  after[Len(PeakLoop)]

PeakColumns == {PeakCol(PeakLoop[n][1], PeakLoop[n][2]) : n \in DOMAIN PeakLoop}

calculate_segment_peak_flows(d, cs) ==
    IF ~(FlowCols \subseteq cs)
    THEN Outcome(d, cs, "calculate_segment_peak_flows", <<>>, "KeyError", 0)
    ELSE Outcome([i \in 1..Len(d) |-> PeakRow(d[i])], cs \cup PeakColumns,
                 "calculate_segment_peak_flows", <<>>, "ok", 0)

(***************************************************************************)
(* capacity_analyzer.py                                                    *)
(***************************************************************************)
CapCol(period, name) == period \o "_" \o name

\* self.df[f"{period}_PCE_FLOW"] = calculate_pce_flow(peak total, peak truck)
PceRow(row, period) ==
    SetCol(row, CapCol(period, "PCE_FLOW"),
           calculate_pce_flow(row[PeakCol(period, "total")], row[PeakCol(period, "truck")]))

\* self.df[f"{period}_CAPACITY"] = calculate_capacity(lanes)
SetCapacity(row, period) ==
    SetCol(row, CapCol(period, "CAPACITY"), calculate_capacity(row[LANE_FIELDS[period]]))

\* self.df[f"{period}_VC_RATIO"] = calculate_vc_ratio(PCE flow, capacity)
SetVcRatio(row, period) ==
    SetCol(row, CapCol(period, "VC_RATIO"),
           calculate_vc_ratio_series(Fin(row[CapCol(period, "PCE_FLOW")]),
                                     Fin(row[CapCol(period, "CAPACITY")])))

\* self.df[f"{period}_LOS"] = VC_RATIO.apply(get_los_from_vc)
SetLos(row, period) ==
    SetCol(row, CapCol(period, "LOS"), get_los_from_vc(row[CapCol(period, "VC_RATIO")]))

CapacityRow(row, period) ==
    SetLos(SetVcRatio(SetCapacity(PceRow(row, period), period), period), period)

CapColumns(period) == {CapCol(period, n) : n \in {"PCE_FLOW", "CAPACITY", "VC_RATIO", "LOS"}}

calculate_segment_capacity(d, cs, period) ==
    IF period \notin {"AM", "PM"}
    THEN Outcome(d, cs, "calculate_segment_capacity", <<period>>, "ValueError", 0)
    ELSE IF PeakCol(period, "total") \notin cs \/ PeakCol(period, "truck") \notin cs
    THEN Outcome(d, cs, "calculate_segment_capacity", <<period>>, "ValueError", 0)
    ELSE IF LANE_FIELDS[period] \notin cs
    THEN \* the PCE flow column has been written before the lane column is looked up
         Outcome([i \in 1..Len(d) |-> PceRow(d[i], period)],
                 cs \cup {CapCol(period, "PCE_FLOW")},
                 "calculate_segment_capacity", <<period>>, "ValueError", 0)
    ELSE Outcome([i \in 1..Len(d) |-> CapacityRow(d[i], period)],
                 cs \cup CapColumns(period),
                 "calculate_segment_capacity", <<period>>, "ok", 0)

(***************************************************************************)
(* truck_analyzer.py                                                       *)
(***************************************************************************)
\* Variant: the share is left as a fraction of one.
PctWhereFraction(num, den) == IF den > 0 THEN FDiv(num, den) ELSE 0

\* np.where(den > 0, (num / den) * 100, 0) for one row.
PctWhere(num, den) == IF den > 0 THEN FMul(FDiv(num, den), FInt(100)) ELSE 0

\* Variant: the intensity is taken per PM lane.
TruckIntensityRowPm(row) ==
    SetCol(row, "TRUCK_INTENSITY",
           IF row["AB_PMLANES"] > 0 THEN FDiv(row["TRUCK_AADT"], row["AB_PMLANES"]) ELSE 0)

TruckIntensityRow(row) ==
    SetCol(row, "TRUCK_INTENSITY",
           IF row["AB_AMLANES"] > 0 THEN FDiv(row["TRUCK_AADT"], row["AB_AMLANES"]) ELSE 0)

TruckRatioRow(row, period) ==
    SetCol(row, period \o "_TRUCK_RATIO",
           PctWhere(row[PeakCol(period, "truck")], row[PeakCol(period, "total")]))

\* The table after the first n of the three assignments of the method.
TruckSteps(d, n) ==
    [i \in 1..Len(d) |->
        IF n = 1 THEN TruckIntensityRow(d[i])
        ELSE IF n = 2 THEN TruckRatioRow(TruckIntensityRow(d[i]), "AM")
        ELSE TruckRatioRow(TruckRatioRow(TruckIntensityRow(d[i]), "AM"), "PM")]

\* Variant: of the lane fields only the one the method reads is required.
calculate_segment_truck_metrics_am_lane(d, cs) ==
    IF "TRUCK_AADT" \notin cs \/ "TRUCK_PCT" \notin cs \/ "AB_AMLANES" \notin cs
    THEN Outcome(d, cs, "calculate_segment_truck_metrics", <<>>, "ValueError", 0)
    ELSE IF ~({"AM_PEAK_TOTAL", "AM_PEAK_TRUCK"} \subseteq cs)
    THEN Outcome(TruckSteps(d, 1), cs \cup {"TRUCK_INTENSITY"},
                 "calculate_segment_truck_metrics", <<>>, "KeyError", 0)
    ELSE IF ~({"PM_PEAK_TOTAL", "PM_PEAK_TRUCK"} \subseteq cs)
    THEN Outcome(TruckSteps(d, 2), cs \cup {"TRUCK_INTENSITY", "AM_TRUCK_RATIO"},
                 "calculate_segment_truck_metrics", <<>>, "KeyError", 0)
    ELSE Outcome(TruckSteps(d, 3),
                 cs \cup {"TRUCK_INTENSITY", "AM_TRUCK_RATIO", "PM_TRUCK_RATIO"},
                 "calculate_segment_truck_metrics", <<>>, "ok", 0)

calculate_segment_truck_metrics(d, cs) ==
    IF "TRUCK_AADT" \notin cs \/ "TRUCK_PCT" \notin cs
    THEN Outcome(d, cs, "calculate_segment_truck_metrics", <<>>, "ValueError", 0)
    ELSE IF ~(LaneCols \subseteq cs)
    THEN Outcome(d, cs, "calculate_segment_truck_metrics", <<>>, "ValueError", 0)
    ELSE IF ~({"AM_PEAK_TOTAL", "AM_PEAK_TRUCK"} \subseteq cs)
    THEN Outcome(TruckSteps(d, 1), cs \cup {"TRUCK_INTENSITY"},
                 "calculate_segment_truck_metrics", <<>>, "KeyError", 0)
    ELSE IF ~({"PM_PEAK_TOTAL", "PM_PEAK_TRUCK"} \subseteq cs)
    THEN Outcome(TruckSteps(d, 2), cs \cup {"TRUCK_INTENSITY", "AM_TRUCK_RATIO"},
                 "calculate_segment_truck_metrics", <<>>, "KeyError", 0)
    ELSE Outcome(TruckSteps(d, 3),
                 cs \cup {"TRUCK_INTENSITY", "AM_TRUCK_RATIO", "PM_TRUCK_RATIO"},
                 "calculate_segment_truck_metrics", <<>>, "ok", 0)

(***************************************************************************)
(* Group-level operations: the rows of one (direction, facility type).     *)
(***************************************************************************)
\* len(self.df[mask]) for mask = (DIRECT == direction) & (TYPE == facility_type).
GroupRows(d, direction, facility_type) ==
    {i \in DOMAIN d : d[i][DIRECTION_FIELD] = direction /\ d[i][TYPE_FIELD] = facility_type}

\* series.mean(): the float mean of the values that are not NaN.
Mean(values) ==
    LET nums == SelectSeq(values, IsFin)
    IN  IF nums = <<>> THEN NaN
        ELSE Fin(FDiv(FSum([i \in DOMAIN nums |-> nums[i].v]), FInt(Len(nums))))

\* self.df[mask] as a table: the rows of the group in table order.
GroupTable(d, direction, facility_type) ==
    LET InGroup(row) == row[DIRECTION_FIELD] = direction /\ row[TYPE_FIELD] = facility_type
    IN  SelectSeq(d, InGroup)

\* Variant: the empty group is not singled out; the statistics of no rows are
\* reported.
GroupOutcomeUnguarded(d, cs, op, args, checked, direction, facility_type, reads, result) ==
    IF ~checked THEN Outcome(d, cs, op, args, "ValueError", 0)
    ELSE IF ~(reads \subseteq cs) THEN Outcome(d, cs, op, args, "KeyError", 0)
    ELSE Outcome(d, cs, op, args, "dict", result)

\* A group method: raises ValueError when checked is false, returns None for an
\* empty group, raises KeyError when a column it reads is absent, else the
\* dict result.
GroupOutcome(d, cs, op, args, checked, direction, facility_type, reads, result) ==
    IF ~checked THEN Outcome(d, cs, op, args, "ValueError", 0)
    ELSE IF GroupRows(d, direction, facility_type) = {}
    THEN Outcome(d, cs, op, args, "None", 0)
    ELSE IF ~(reads \subseteq cs) THEN Outcome(d, cs, op, args, "KeyError", 0)
    ELSE Outcome(d, cs, op, args, "dict", result)

\* "num_segments": len(group_df), the entry every group dict has.
NumSegments(d, direction, facility_type) ==
    [num_segments |-> Cardinality(GroupRows(d, direction, facility_type))]

calculate_group_average_aadt(d, cs, direction, facility_type) ==
    GroupOutcome(d, cs, "calculate_group_average_aadt", <<direction, facility_type>>,
                 TRUE, direction, facility_type, AADTColumns,
                 NumSegments(d, direction, facility_type))

\* float(group_df[col].mean()) of a column of plain floats.
ColumnMean(group_df, col) ==
    IF group_df = <<>> THEN NaN
    ELSE Fin(FDiv(FSum([i \in DOMAIN group_df |-> group_df[i][col]]),
                  FInt(Len(group_df))))

\* The entries of the peak dict the comparisons read.
GroupPeakDict(d, direction, facility_type, period) ==
    [num_segments |-> Len(GroupTable(d, direction, facility_type)),
     avg_peak_total |->
         ColumnMean(GroupTable(d, direction, facility_type), PeakCol(period, "total"))]

calculate_group_average_peak(d, cs, direction, facility_type, period) ==
    GroupOutcome(d, cs, "calculate_group_average_peak",
                 <<direction, facility_type, period>>,
                 period \in {"AM", "PM"} /\ PeakCol(period, "total") \in cs,
                 direction, facility_type,
                 IF period \in {"AM", "PM"}
                 THEN {PeakCol(period, ft) : ft \in {"total", "auto", "truck"}} ELSE {},
                 GroupPeakDict(d, direction, facility_type, period))

\* Variant: the grade the group's first segment has is reported as dominant.
DominantLosFirst(los) == IF los = <<>> THEN "N/A" ELSE los[1]

\* los_counts.idxmax() if len(los_counts) > 0 else "N/A": a grade no other
\* grade of the group outnumbers.
DominantLos(los) ==
    IF los = <<>> THEN "N/A"
    ELSE CHOOSE g \in Range(los) :
             \A h \in Range(los) :
                 Cardinality({i \in DOMAIN los : los[i] = h})
                     <= Cardinality({i \in DOMAIN los : los[i] = g})

\* The entries of the capacity dict: the segment count, the mean V/C ratio,
\* and group_df[f"{period}_LOS"].value_counts() with its dominant grade.
GroupCapacityDict(d, direction, facility_type, period) ==
    LET group_df == GroupTable(d, direction, facility_type)
        los == [i \in DOMAIN group_df |-> group_df[i][CapCol(period, "LOS")]]
    IN  [num_segments |-> Len(group_df),
         avg_vc_ratio |->
             Mean([i \in DOMAIN group_df |-> group_df[i][CapCol(period, "VC_RATIO")]]),
         dominant_los |-> DominantLos(los),
         los_counts |->
             [g \in Range(los) |-> Cardinality({i \in DOMAIN los : los[i] = g})]]

calculate_group_capacity(d, cs, direction, facility_type, period) ==
    GroupOutcome(d, cs, "calculate_group_capacity",
                 <<direction, facility_type, period>>,
                 period \in {"AM", "PM"} /\ CapColumns(period) \subseteq cs,
                 direction, facility_type, {},
                 GroupCapacityDict(d, direction, facility_type, period))

TruckMetricColumns ==
    {"TRUCK_AADT", "TRUCK_PCT", "TRUCK_INTENSITY", "AM_TRUCK_RATIO", "PM_TRUCK_RATIO"}

calculate_group_truck_metrics(d, cs, direction, facility_type) ==
    GroupOutcome(d, cs, "calculate_group_truck_metrics", <<direction, facility_type>>,
                 TruckMetricColumns \subseteq cs, direction, facility_type, {},
                 NumSegments(d, direction, facility_type))

(***************************************************************************)
(* The all-groups aggregators: calculate_all_groups (AADT),                *)
(* calculate_all_groups_peak, calculate_all_groups_capacity and             *)
(* calculate_all_groups_truck.                                              *)
(***************************************************************************)
\* self.df[col].unique(): the values of a column in order of first appearance.
Unique(d, col) ==
    LET firsts == {i \in DOMAIN d : \A j \in 1..(i - 1) : d[j][col] # d[i][col]}
        pos == CHOOSE s \in [1..Cardinality(firsts) -> firsts] :
                   \A j, k \in 1..Cardinality(firsts) : j < k => s[j] < s[k]
    IN  [n \in 1..Cardinality(firsts) |-> d[pos[n]][col]]

\* for direction in directions: for facility_type in facility_types: the
\* pairs in the order the nested loops visit them.
GroupLoop(d) ==
    LET directions == Unique(d, DIRECTION_FIELD)
        facility_types == Unique(d, TYPE_FIELD)
    IN  [k \in 1..(Len(directions) * Len(facility_types)) |->
            <<directions[((k - 1) \div Len(facility_types)) + 1],
              facility_types[((k - 1) % Len(facility_types)) + 1]>>]

\* The order of the labels under sort_values: strings in alphabetical order.
LabelOrder == <<"HV", "ML", "N", "S">>
LabelBefore(a, b) ==
    \E j, k \in DOMAIN LabelOrder : LabelOrder[j] = a /\ LabelOrder[k] = b /\ j < k

\* summary_df.sort_values(["direction", "type"]).reset_index(drop=True)
SortByGroup(rows) ==
    CHOOSE s \in [DOMAIN rows -> Range(rows)] :
        /\ Range(s) = Range(rows)
        /\ \A j, k \in DOMAIN rows :
               j < k => \/ LabelBefore(s[j].direction, s[k].direction)
                        \/ /\ s[j].direction = s[k].direction
                           /\ ~LabelBefore(s[k].type, s[j].type)

\* if result is not None: result_list.append(result), for the outcomes of the
\* group calls in loop order.
SummaryRows(d, results) ==
    LET IsDict(r) == r.status = "dict"
        kept == SelectSeq(results, IsDict)
    IN  [k \in DOMAIN kept |->
            [direction |-> kept[k].args[1], type |-> kept[k].args[2]] @@ kept[k].value]

\* An all-groups method.  checked: its own argument and column checks pass;
\* results: what the group method returned or raised for each pair of the
\* loop; sorted: the summary is sorted by group (the AADT one instead renames
\* its columns).  An exception of a group call ends the method; an empty
\* summary has no columns to sort by or to rename.
AllGroupsOutcome(d, cs, op, args, checked, results, sorted) ==
    IF ~checked THEN Outcome(d, cs, op, args, "ValueError", 0)
    ELSE IF \E k \in DOMAIN results : results[k].status \notin {"dict", "None"}
    THEN Outcome(d, cs, op, args,
                 results[CHOOSE k \in DOMAIN results :
                             /\ results[k].status \notin {"dict", "None"}
                             /\ \A j \in 1..(k - 1) : results[j].status \in {"dict", "None"}].status,
                 0)
    ELSE IF SummaryRows(d, results) = <<>>
    THEN Outcome(d, cs, op, args, IF sorted THEN "KeyError" ELSE "ValueError", 0)
    ELSE Outcome(d, cs, op, args, "ok",
                 IF sorted THEN SortByGroup(SummaryRows(d, results))
                 ELSE SummaryRows(d, results))

calculate_all_groups(d, cs) ==
    AllGroupsOutcome(d, cs, "calculate_all_groups", <<>>, TRUE,
        [k \in DOMAIN GroupLoop(d) |->
            calculate_group_average_aadt(d, cs, GroupLoop(d)[k][1], GroupLoop(d)[k][2]).ret],
        FALSE)

calculate_all_groups_peak(d, cs, period) ==
    AllGroupsOutcome(d, cs, "calculate_all_groups_peak", <<period>>,
        period \in {"AM", "PM"} /\ PeakCol(period, "total") \in cs,
        [k \in DOMAIN GroupLoop(d) |->
            calculate_group_average_peak(d, cs, GroupLoop(d)[k][1], GroupLoop(d)[k][2],
                                         period).ret],
        TRUE)

calculate_all_groups_capacity(d, cs, period) ==
    AllGroupsOutcome(d, cs, "calculate_all_groups_capacity", <<period>>,
        period \in {"AM", "PM"} /\ CapCol(period, "CAPACITY") \in cs,
        [k \in DOMAIN GroupLoop(d) |->
            calculate_group_capacity(d, cs, GroupLoop(d)[k][1], GroupLoop(d)[k][2],
                                     period).ret],
        TRUE)

calculate_all_groups_truck(d, cs) ==
    AllGroupsOutcome(d, cs, "calculate_all_groups_truck", <<>>,
        TruckMetricColumns \subseteq cs,
        [k \in DOMAIN GroupLoop(d) |->
            calculate_group_truck_metrics(d, cs, GroupLoop(d)[k][1], GroupLoop(d)[k][2]).ret],
        TRUE)

(***************************************************************************)
(* capacity_analyzer.py: get_los_distribution                              *)
(***************************************************************************)
\* (count / total) * 100 in float64; 0 / 0 of the numpy counts is NaN.
Percentage(count, total) ==
    IF total = 0 THEN NaN ELSE Fin(FMul(FDiv(FInt(count), FInt(total)), FInt(100)))

get_los_distribution(d, cs, period) ==
    IF period \notin {"AM", "PM"}
    THEN Outcome(d, cs, "get_los_distribution", <<period>>, "ValueError", 0)
    ELSE IF CapCol(period, "LOS") \notin cs
    THEN Outcome(d, cs, "get_los_distribution", <<period>>, "ValueError", 0)
    ELSE LET los == [i \in DOMAIN d |-> d[i][CapCol(period, "LOS")]]
             vc == [i \in DOMAIN d |-> d[i][CapCol(period, "VC_RATIO")]]
             count(g) == Cardinality({i \in DOMAIN d : los[i] = g})
             over == Cardinality({i \in DOMAIN d : XGt(vc[i], Fin(FInt(1)))})
         IN  Outcome(d, cs, "get_los_distribution", <<period>>, "ok",
                 [period |-> period,
                  total_segments |-> Len(d),
                  los_counts |-> [g \in Range(los) |-> count(g)],
                  los_percentages |->
                      [g \in {"A", "B", "C", "D", "E", "F"} |->
                          IF Len(d) > 0 THEN Percentage(count(g), Len(d)) ELSE Fin(0)],
                  avg_vc_ratio |-> Mean(vc),
                  segments_over_capacity |-> over,
                  percentage_over_capacity |-> Percentage(over, Len(d))])

(***************************************************************************)
(* capacity_analyzer.py: identify_bottlenecks                              *)
(***************************************************************************)
\* self.df[self.df[f"{period}_VC_RATIO"] > vc_threshold]: the rows kept.
BottleneckRows(d, period, vc_threshold) ==
    {i \in DOMAIN d : XGt(d[i][CapCol(period, "VC_RATIO")], Fin(vc_threshold))}

\* The columns the result is cut down to.
BottleneckColumns(period) ==
    {"direction", "type", CapCol(period, "VC_RATIO"), CapCol(period, "LOS"),
     CapCol(period, "PCE_FLOW"), CapCol(period, "CAPACITY")}

\* sort_values(f"{period}_VC_RATIO", ascending=False) of the rows kept, as
\* the sequence of their positions in the table (equal ratios in table order).
SortDescending(d, rows, col) ==
    CHOOSE s \in [1..Cardinality(rows) -> rows] :
        \A j, k \in 1..Cardinality(rows) :
            j < k => \/ XGt(d[s[j]][col], d[s[k]][col])
                     \/ d[s[j]][col] = d[s[k]][col] /\ s[j] < s[k]

\* Variant: the ends of the range are refused.
ThresholdRefusedAtEnds(vc_threshold) == vc_threshold <= 0 \/ vc_threshold >= FInt(3)

\* (vc_threshold < 0) or (vc_threshold > 3)
ThresholdRefused(vc_threshold) == vc_threshold < 0 \/ vc_threshold > FInt(3)

identify_bottlenecks(d, cs, period, vc_threshold) ==
    IF period \notin {"AM", "PM"}
    THEN Outcome(d, cs, "identify_bottlenecks", <<period, vc_threshold>>, "ValueError", 0)
    ELSE IF ThresholdRefused(vc_threshold)
    THEN Outcome(d, cs, "identify_bottlenecks", <<period, vc_threshold>>, "ValueError", 0)
    ELSE IF CapCol(period, "VC_RATIO") \notin cs
    THEN Outcome(d, cs, "identify_bottlenecks", <<period, vc_threshold>>, "ValueError", 0)
    ELSE IF ~(BottleneckColumns(period) \subseteq cs)
    THEN \* result_df[["direction", "type", ...]]: a label that is no column
         Outcome(d, cs, "identify_bottlenecks", <<period, vc_threshold>>, "KeyError", 0)
    ELSE Outcome(d, cs, "identify_bottlenecks", <<period, vc_threshold>>, "ok",
                 SortDescending(d, BottleneckRows(d, period, vc_threshold),
                                CapCol(period, "VC_RATIO")))

(***************************************************************************)
(* truck_analyzer.py: identify_high_truck_segments                         *)
(***************************************************************************)
\* self.df[self.df["TRUCK_PCT"] > truck_pct_threshold]: the rows kept.
HighTruckRows(d, truck_pct_threshold) ==
    {i \in DOMAIN d : d[i]["TRUCK_PCT"] > truck_pct_threshold}

\* The columns the result is cut down to.
HighTruckColumns ==
    {DIRECTION_FIELD, TYPE_FIELD, "TRUCK_AADT", "TRUCK_PCT", "TRUCK_INTENSITY",
     "AM_TRUCK_RATIO", "PM_TRUCK_RATIO"}

\* sort_values(by="TRUCK_PCT", ascending=False) of the rows kept, as the
\* sequence of their positions in the table (equal shares in table order).
SortByTruckPct(d, rows) ==
    CHOOSE s \in [1..Cardinality(rows) -> rows] :
        \A j, k \in 1..Cardinality(rows) :
            j < k => \/ d[s[j]]["TRUCK_PCT"] > d[s[k]]["TRUCK_PCT"]
                     \/ d[s[j]]["TRUCK_PCT"] = d[s[k]]["TRUCK_PCT"] /\ s[j] < s[k]

\* Variant: the ends of the range are refused.
TruckThresholdRefusedAtEnds(truck_pct_threshold) ==
    truck_pct_threshold <= 0 \/ truck_pct_threshold >= FInt(100)

\* truck_pct_threshold < 0 or truck_pct_threshold > 100
TruckThresholdRefused(truck_pct_threshold) ==
    truck_pct_threshold < 0 \/ truck_pct_threshold > FInt(100)

identify_high_truck_segments(d, cs, truck_pct_threshold) ==
    IF TruckThresholdRefused(truck_pct_threshold)
    THEN Outcome(d, cs, "identify_high_truck_segments", <<truck_pct_threshold>>,
                 "ValueError", 0)
    ELSE IF "TRUCK_PCT" \notin cs
    THEN Outcome(d, cs, "identify_high_truck_segments", <<truck_pct_threshold>>,
                 "ValueError", 0)
    ELSE IF ~(HighTruckColumns \subseteq cs)
    THEN \* filtered_df[[...]]: a label that is no column
         Outcome(d, cs, "identify_high_truck_segments", <<truck_pct_threshold>>,
                 "KeyError", 0)
    ELSE Outcome(d, cs, "identify_high_truck_segments", <<truck_pct_threshold>>, "ok",
                 SortByTruckPct(d, HighTruckRows(d, truck_pct_threshold)))

(***************************************************************************)
(* truck_analyzer.py: analyze_truck_composition                            *)
(***************************************************************************)
\* Variant: the shares are taken of the light and heavy flow only.
TruckShareOfTwo(flow, lhdt_flow, mhdt_flow, hhdt_flow) ==
    IF FAdd(lhdt_flow, hhdt_flow) > 0
    THEN FMul(FDiv(flow, FAdd(lhdt_flow, hhdt_flow)), FInt(100))
    ELSE 0

\* (flow / total_truck_flow) * 100 if total_truck_flow > 0 else 0.0, with
\* total_truck_flow = lhdt_flow + mhdt_flow + hhdt_flow.
TruckShare(flow, lhdt_flow, mhdt_flow, hhdt_flow) ==
    IF FAdd(FAdd(lhdt_flow, mhdt_flow), hhdt_flow) > 0
    THEN FMul(FDiv(flow, FAdd(FAdd(lhdt_flow, mhdt_flow), hhdt_flow)), FInt(100))
    ELSE 0

\* float(self.df[col].sum())
ColumnSum(d, col) == FSum([i \in DOMAIN d |-> d[i][col]])

\* One period's entry of the result: truck_cols are the light, medium and
\* heavy truck flow fields of the period.
TruckComposition(d, truck_cols) ==
    LET lhdt_flow == ColumnSum(d, truck_cols[1])
        mhdt_flow == ColumnSum(d, truck_cols[2])
        hhdt_flow == ColumnSum(d, truck_cols[3])
    IN  [total_truck_flow |-> FAdd(FAdd(lhdt_flow, mhdt_flow), hhdt_flow),
         lhdt_flow |-> lhdt_flow,
         mhdt_flow |-> mhdt_flow,
         hhdt_flow |-> hhdt_flow,
         lhdt_pct |-> TruckShare(lhdt_flow, lhdt_flow, mhdt_flow, hhdt_flow),
         mhdt_pct |-> TruckShare(mhdt_flow, lhdt_flow, mhdt_flow, hhdt_flow),
         hhdt_pct |-> TruckShare(hhdt_flow, lhdt_flow, mhdt_flow, hhdt_flow)]

analyze_truck_composition(d, cs) ==
    IF ~(Range(AM_FIELDS.truck) \cup Range(PM_FIELDS.truck) \subseteq cs)
    THEN Outcome(d, cs, "analyze_truck_composition", <<>>, "KeyError", 0)
    ELSE Outcome(d, cs, "analyze_truck_composition", <<>>, "ok",
                 [AM |-> TruckComposition(d, AM_FIELDS.truck),
                  PM |-> TruckComposition(d, PM_FIELDS.truck)])

(***************************************************************************)
(* compare_am_pm_capacity, compare_am_pm_peaks, compare_am_pm_truck_flows   *)
(***************************************************************************)
\* (am - pm).abs() of two means; a mean that is NaN makes the difference NaN.
AbsDiff(am, pm) ==
    IF IsNaN(am) \/ IsNaN(pm) THEN NaN ELSE Fin(Abs(FSub(am.v, pm.v)))

\* np.where(am > pm, "AM", np.where(pm > am, "PM", "EQUAL"))
HigherPeriod(am, pm) ==
    IF XGt(am, pm) THEN "AM" ELSE IF XGt(pm, am) THEN "PM" ELSE "EQUAL"

\* am_cols.merge(pm_cols, on=["direction", "type"]): the row of pm_rows with
\* the group of the am row.
Merged(am_row, pm_rows) ==
    pm_rows[CHOOSE k \in DOMAIN pm_rows :
                pm_rows[k].direction = am_row.direction /\ pm_rows[k].type = am_row.type]

compare_am_pm_capacity(d, cs) ==
    IF "AM_CAPACITY" \notin cs \/ "PM_CAPACITY" \notin cs
    THEN Outcome(d, cs, "compare_am_pm_capacity", <<>>, "ValueError", 0)
    ELSE IF calculate_all_groups_capacity(d, cs, "AM").ret.status # "ok"
    THEN Outcome(d, cs, "compare_am_pm_capacity", <<>>,
                 calculate_all_groups_capacity(d, cs, "AM").ret.status, 0)
    ELSE IF calculate_all_groups_capacity(d, cs, "PM").ret.status # "ok"
    THEN Outcome(d, cs, "compare_am_pm_capacity", <<>>,
                 calculate_all_groups_capacity(d, cs, "PM").ret.status, 0)
    ELSE LET am_cols == calculate_all_groups_capacity(d, cs, "AM").ret.value
             pm_cols == calculate_all_groups_capacity(d, cs, "PM").ret.value
         IN  Outcome(d, cs, "compare_am_pm_capacity", <<>>, "ok",
                 [k \in DOMAIN am_cols |->
                     [direction |-> am_cols[k].direction,
                      type |-> am_cols[k].type,
                      am_vc_ratio |-> am_cols[k].avg_vc_ratio,
                      pm_vc_ratio |-> Merged(am_cols[k], pm_cols).avg_vc_ratio,
                      am_los |-> am_cols[k].dominant_los,
                      pm_los |-> Merged(am_cols[k], pm_cols).dominant_los,
                      vc_diff |-> AbsDiff(am_cols[k].avg_vc_ratio,
                                          Merged(am_cols[k], pm_cols).avg_vc_ratio),
                      worse_period |-> HigherPeriod(am_cols[k].avg_vc_ratio,
                                          Merged(am_cols[k], pm_cols).avg_vc_ratio)]])

\* The peak_ratio column (pm_peak / am_peak rounded to two places) is left out.
compare_am_pm_peaks(d, cs) ==
    IF "AM_PEAK_TOTAL" \notin cs \/ "PM_PEAK_TOTAL" \notin cs
    THEN Outcome(d, cs, "compare_am_pm_peaks", <<>>, "ValueError", 0)
    ELSE IF calculate_all_groups_peak(d, cs, "AM").ret.status # "ok"
    THEN Outcome(d, cs, "compare_am_pm_peaks", <<>>,
                 calculate_all_groups_peak(d, cs, "AM").ret.status, 0)
    ELSE IF calculate_all_groups_peak(d, cs, "PM").ret.status # "ok"
    THEN Outcome(d, cs, "compare_am_pm_peaks", <<>>,
                 calculate_all_groups_peak(d, cs, "PM").ret.status, 0)
    ELSE LET am_cols == calculate_all_groups_peak(d, cs, "AM").ret.value
             pm_cols == calculate_all_groups_peak(d, cs, "PM").ret.value
         IN  Outcome(d, cs, "compare_am_pm_peaks", <<>>, "ok",
                 [k \in DOMAIN am_cols |->
                     [direction |-> am_cols[k].direction,
                      type |-> am_cols[k].type,
                      am_peak |-> am_cols[k].avg_peak_total,
                      pm_peak |-> Merged(am_cols[k], pm_cols).avg_peak_total,
                      peak_diff |-> AbsDiff(Merged(am_cols[k], pm_cols).avg_peak_total,
                                            am_cols[k].avg_peak_total),
                      dominant_period |-> HigherPeriod(am_cols[k].avg_peak_total,
                                            Merged(am_cols[k], pm_cols).avg_peak_total)]])

\* self.df.groupby([DIRECT, TYPE]): the groups with a row, sorted by key.
GroupKeys(d) ==
    LET HasRow(g) == GroupRows(d, g[1], g[2]) # {}
        present == SelectSeq(GroupLoop(d), HasRow)
    IN  IF present = <<>> THEN <<>>
        ELSE SortByGroup([k \in DOMAIN present |->
                             [direction |-> present[k][1], type |-> present[k][2]]])

\* The AM_TRUCK_RATIO and PM_TRUCK_RATIO means of the result are left out.
compare_am_pm_truck_flows(d, cs) ==
    IF ~({"AM_PEAK_TRUCK", "PM_PEAK_TRUCK", "AM_TRUCK_RATIO", "PM_TRUCK_RATIO"}
            \subseteq cs)
    THEN Outcome(d, cs, "compare_am_pm_truck_flows", <<>>, "ValueError", 0)
    ELSE Outcome(d, cs, "compare_am_pm_truck_flows", <<>>, "ok",
             [k \in DOMAIN GroupKeys(d) |->
                 LET group_df == GroupTable(d, GroupKeys(d)[k].direction, GroupKeys(d)[k].type)
                 IN  [DIRECT |-> GroupKeys(d)[k].direction,
                      TYPE |-> GroupKeys(d)[k].type,
                      AM_PEAK_TRUCK |-> ColumnMean(group_df, "AM_PEAK_TRUCK"),
                      PM_PEAK_TRUCK |-> ColumnMean(group_df, "PM_PEAK_TRUCK"),
                      TRUCK_PEAK_DIFF |-> AbsDiff(ColumnMean(group_df, "AM_PEAK_TRUCK"),
                                                  ColumnMean(group_df, "PM_PEAK_TRUCK")),
                      higher_truck_period |->
                          HigherPeriod(ColumnMean(group_df, "AM_PEAK_TRUCK"),
                                       ColumnMean(group_df, "PM_PEAK_TRUCK"))]])

(***************************************************************************)
(* data_loader.py.  A directory maps a section number to the file that     *)
(* INPUT_FILE_PATTERN names for it: whether it exists, its header and its   *)
(* rows.  The section argument is what the caller passes: a number, or (as  *)
(* analyze_multiple_sections does) a list, for which no file is named.      *)
(***************************************************************************)
\* The names config.py defines.
ConfigAttributes ==
    {"AM_PEAK_FACTOR", "PM_PEAK_FACTOR", "TIME_PERIODS", "AUTO_PCE", "LHDT_PCE",
     "MHDT_PCE", "HHDT_PCE", "TRUCK_PCE_AVG", "CAPACITY_PER_LANE", "LOS_THRESHOLDS",
     "LOS_DESCRIPTIONS", "AM_FIELDS", "PM_FIELDS", "MD_FIELDS", "EVE_FIELDS",
     "NT_FIELDS", "PERIOD_FIELDS", "LANE_FIELDS", "LANE_TYPES", "DIRECTIONS",
     "DIRECTION_FIELD", "TYPE_FIELD", "SECTIONS", "INPUT_DIR", "OUTPUT_DIR",
     "INPUT_FILE_PATTERN", "OUTPUT_FILE_DEFAULT", "BASE_YEAR", "FORECAST_YEAR",
     "ANALYSIS_YEARS", "EXCEL_SHEETS", "COLUMN_WIDTHS", "NUMBER_FORMATS",
     "VALIDATION_RANGES", "LOG_LEVEL", "LOG_FORMAT", "METADATA",
     "AGGREGATION_METHOD"}

Section(n) == [kind |-> "int", v |-> <<n>>]
SectionList(sections) == [kind |-> "list", v |-> sections]

NoFile == [exists |-> FALSE, columns |-> {}, rows |-> <<>>]

\* os.path.exists(filepath) and pd.read_csv(filepath)
FileOf(dir, section) ==
    IF section.kind = "int" /\ section.v[1] \in DOMAIN dir
    THEN dir[section.v[1]]
    ELSE NoFile

\* any(field in df.columns for field in fields["auto"] + fields["truck"])
FieldsExist(cs, fields) == (Range(fields.auto) \cup Range(fields.truck)) \cap cs # {}

\* _validate_required_fields: "ok" or the exception raised.  Building the
\* list of required fields reads config.FACILITY_FIELD.
validate_required_fields(cs) ==
    IF "FACILITY_FIELD" \notin ConfigAttributes
    THEN "AttributeError"
    ELSE IF ~({DIRECTION_FIELD, "ID", "LENGTH"} \subseteq cs)
    THEN "ValueError"
    ELSE IF ~(FieldsExist(cs, AM_FIELDS) /\ FieldsExist(cs, PM_FIELDS))
    THEN "ValueError"
    ELSE "ok"

\* df["YEAR"] = year; df["SECTION"] = section
AddMetadata(rows, year, section) ==
    [i \in DOMAIN rows |-> SetCol(SetCol(rows[i], "YEAR", year), "SECTION", section)]

load_section_data(dir, year, section) ==
    LET file == FileOf(dir, section)
    IN  IF ~file.exists
        THEN Raise("FileNotFoundError")
        ELSE IF validate_required_fields(file.columns) # "ok"
        THEN Raise(validate_required_fields(file.columns))
        ELSE Ok([columns |-> file.columns \cup {"YEAR", "SECTION"},
                 rows |-> AddMetadata(file.rows, year, section)])

(***************************************************************************)
(* main.py: ScagModelOrchestrator                                          *)
(***************************************************************************)
\* analyze_single_section: every exception is logged and raised again.  With
\* a table loaded, AADTCalculator() is constructed without the table its
\* __init__ requires.
analyze_single_section(dir, year, section) ==
    LET loaded == load_section_data(dir, year, section)
    IN  IF loaded.status # "ok"
        THEN Raise(loaded.status)
        ELSE IF Len(loaded.value.rows) = 0
        THEN Raise("ValueError")
        ELSE Raise("TypeError")

\* self.analyze_single_section(year, sections): the argument of the call made
\* for one section of the loop.
BatchArgument(sections, section) == SectionList(sections)

\* analyze_multiple_sections: the keys of results_dict and the sections
\* logged as failed.
analyze_multiple_sections(dir, year, sections) ==
    LET succeeded(i) ==
            analyze_single_section(dir, year, BatchArgument(sections, sections[i])).status = "ok"
    IN  Ok([results |-> {sections[i] : i \in {j \in DOMAIN sections : succeeded(j)}},
            failed  |-> {sections[i] : i \in {j \in DOMAIN sections : ~succeeded(j)}}])

(***************************************************************************)
(* Input tables.  A loaded table has the direction and type fields, the    *)
(* five lane fields and the thirty flow fields; flows and lane counts are   *)
(* non-negative floats.                                                    *)
(***************************************************************************)
RawColumns == {DIRECTION_FIELD, TYPE_FIELD} \cup LaneCols \cup FlowCols

\* A raw row.  lanes = <<AM lanes, PM lanes>> (the other lane fields repeat the
\* AM count); the named flow fields are given, every other flow field is 0.
MkRow(direction, facility_type, lanes, da, sr, li, he, d1, l1, off) ==
    [c \in RawColumns |->
        CASE c = DIRECTION_FIELD -> direction
          [] c = TYPE_FIELD      -> facility_type
          [] c = "AB_PMLANES"    -> FInt(lanes[2])
          [] c \in LaneCols \ {"AB_PMLANES"} -> FInt(lanes[1])
          [] c = "AB_FLOW_DA"    -> da
          [] c = "AB_FLOW_SR"    -> sr
          [] c = "AB_FLOW_LI"    -> li
          [] c = "AB_FLOW_HE"    -> he
          [] c = "AB_FLOW_D1"    -> d1
          [] c = "AB_FLOW_L1"    -> l1
          [] c = "AB_FLOW_D2"    -> off * FInt(5000)
          [] c = "AB_FLOW_13"    -> off * FLit(1001, 2)
          [] c = "AB_FLOW_M3"    -> off * FLit(311, 4)
          [] c = "AB_FLOW_H4"    -> off * FInt(12)
          [] OTHER               -> 0]

Directions == {"N", "S"}
FacilityTypes == {"ML", "HV"}

\* Rows of the single-segment specification: every combination of these
\* whole-number and one-decimal flows, with and without an AM lane.
SegmentRows ==
    {MkRow("N", "ML", lanes, da, 0, li, 0, d1, l1, off) :
        lanes \in {<<0, 3>>, <<2, 3>>},
        da \in {0, FLit(41788, 10), FInt(20000)},
        li \in {0, FInt(1452)},
        d1 \in {0, FLit(60761, 10), FInt(20000)},
        l1 \in {0, FLit(6837, 10)},
        off \in {0, 1}}

\* Number of segment profiles and longest table of the multi-row specification.
NProfiles == 2
MaxRows == 2

Profile(i, direction, facility_type) ==
    CASE i = 1 -> MkRow(direction, facility_type, <<0, 0>>, 0, 0, 0, 0, 0, 0, 0)
      [] i = 2 -> MkRow(direction, facility_type, <<2, 3>>, FInt(3500), FLit(601, 2),
                        FLit(521, 4), 0, FInt(7000), FInt(450), 1)
      [] i = 3 -> MkRow(direction, facility_type, <<2, 3>>, FInt(9008), 0,
                        0, FInt(1010), 0, FInt(450), 0)
      [] OTHER -> MkRow(direction, facility_type, <<i, i - 1>>, FInt(9008), FLit(601, 2),
                        FLit(521, 4), FInt(1010), FInt(7000), 0, 1)

\* The (direction, facility type) pairs that occur in the tables; the group
\* operations are also asked for the pairs that occur in no table.
TableGroups == {<<"N", "ML">>, <<"S", "HV">>}

TableRows == {Profile(i, g[1], g[2]) : i \in 1..NProfiles, g \in TableGroups}

Tables == UNION {[1..n -> TableRows] : n \in 0..MaxRows}

NoCall == [op |-> "none", args |-> <<>>, status |-> "ok", value |-> 0]

\* Arguments the callers pass.
PeriodArgs == {"AM", "PM", "MD"}
ThresholdArgs ==
    {-FLit(1, 10), 0, FLit(85, 100), FInt(3), FInt(3) + 1, FLit(35, 10)}

(***************************************************************************)
(* Operations                                                              *)
(***************************************************************************)
Apply(o) == df' = o.df /\ columns' = o.columns /\ ret' = o.ret

\* Variant: self.df = df; the analyzer works on the caller's own table.
CallerTableShared(before, after) == after

\* self.df = df.copy() in every __init__: the table the caller passed (before)
\* as it is once the method has left the analyzer's table as after.
CallerTable(before, after) == before

SegmentAADT == Apply(calculate_segment_aadt(df, columns))
SegmentPeak == Apply(calculate_segment_peak_flows(df, columns))
SegmentCapacity == \E period \in PeriodArgs : Apply(calculate_segment_capacity(df, columns, period))
SegmentTruck == Apply(calculate_segment_truck_metrics(df, columns))

GroupAADT ==
    \E d \in Directions, t \in FacilityTypes :
        Apply(calculate_group_average_aadt(df, columns, d, t))
GroupPeak ==
    \E d \in Directions, t \in FacilityTypes, period \in PeriodArgs :
        Apply(calculate_group_average_peak(df, columns, d, t, period))
GroupCapacity ==
    \E d \in Directions, t \in FacilityTypes, period \in PeriodArgs :
        Apply(calculate_group_capacity(df, columns, d, t, period))
GroupTruck ==
    \E d \in Directions, t \in FacilityTypes :
        Apply(calculate_group_truck_metrics(df, columns, d, t))

IdentifyBottlenecks ==
    \E period \in PeriodArgs, vc_threshold \in ThresholdArgs :
        Apply(identify_bottlenecks(df, columns, period, vc_threshold))

AllGroupsAADT == Apply(calculate_all_groups(df, columns))
AllGroupsPeak == \E period \in PeriodArgs : Apply(calculate_all_groups_peak(df, columns, period))
AllGroupsCapacity ==
    \E period \in PeriodArgs : Apply(calculate_all_groups_capacity(df, columns, period))
AllGroupsTruck == Apply(calculate_all_groups_truck(df, columns))
LosDistribution == \E period \in PeriodArgs : Apply(get_los_distribution(df, columns, period))

\* The analyzers on tables of up to MaxRows segments.
Init == df \in Tables /\ columns = RawColumns /\ ret = NoCall
Next ==
    \/ SegmentAADT
    \/ SegmentPeak
    \/ SegmentCapacity
    \/ SegmentTruck
    \/ GroupAADT
    \/ GroupPeak
    \/ GroupCapacity
    \/ GroupTruck
    \/ IdentifyBottlenecks
    \/ AllGroupsAADT
    \/ AllGroupsPeak
    \/ AllGroupsCapacity
    \/ AllGroupsTruck
    \/ LosDistribution
Spec == Init /\ [][Next]_vars

(***************************************************************************)
(* The scalar functions of utils.py, called directly.  ret records the     *)
(* call: its arguments and what it returned or raised.                     *)
(***************************************************************************)
\* Number of regular V/C probes per unit.
VcSteps == 64
\* V/C ratios the LOS lookup is asked for: the ratios k / VcSteps over [0, 2],
\* every threshold with its two neighbouring floats, a negative ratio, and the
\* non-finite values.
Thresholds == {LOS_THRESHOLDS[i].threshold.v : i \in 1..(Len(LOS_THRESHOLDS) - 1)}
VcValues ==
    {FLit(k, VcSteps) : k \in 0..(2 * VcSteps)}
        \cup Thresholds \cup {t + 1 : t \in Thresholds}
        \cup {t - 1 : t \in Thresholds}
        \cup {FLit(30, 100), FLit(45, 100), FLit(105, 100), -FInt(1)}
VcProbes == {Fin(x) : x \in VcValues} \cup {NaN, PosInf, NegInf}

\* Flows and capacities the scalar functions are asked for.
FlowProbes ==
    {0, FInt(3), FLit(1, 10), FLit(3, 10), FLit(521, 4), FLit(601, 2),
     FInt(1000), FLit(12533, 10), FInt(5000), FLit(54286, 10), FInt(10000),
     FInt(20000)}
XFlowProbes == {Fin(x) : x \in FlowProbes} \cup {NaN, PosInf}
CapacityProbes ==
    {Fin(0), Fin(FInt(2000)), Fin(FInt(6000)), Fin(-FInt(2000)), NaN, PosInf}

Return(op, args, r) ==
    /\ ret' = [op |-> op, args |-> args, status |-> r.status, value |-> r.value]
    /\ UNCHANGED <<df, columns>>

LosFromVc ==
    \E vc \in VcProbes : Return("get_los_from_vc", <<vc>>, Ok(get_los_from_vc(vc)))
PeakHourFlow ==
    \E x \in FlowProbes, period \in PeriodArgs :
        Return("calculate_peak_hour_flow", <<x, period>>, calculate_peak_hour_flow(x, period))
PceFlow ==
    \E t \in FlowProbes, k \in FlowProbes :
        Return("calculate_pce_flow", <<t, k>>, Ok(calculate_pce_flow(t, k)))
VcRatio ==
    \E pce \in XFlowProbes, cap \in CapacityProbes :
        Return("calculate_vc_ratio", <<pce, cap>>, Ok(calculate_vc_ratio(pce, cap)))
VcRatioSeries ==
    \E pce \in XFlowProbes, cap \in CapacityProbes :
        Return("calculate_vc_ratio_series", <<pce, cap>>,
               Ok(calculate_vc_ratio_series(pce, cap)))

InitUtil == df = <<>> /\ columns = {} /\ ret = NoCall
NextUtil ==
    \/ LosFromVc
    \/ PeakHourFlow
    \/ PceFlow
    \/ VcRatio
    \/ VcRatioSeries
SpecUtil == InitUtil /\ [][NextUtil]_vars

\* A single segment taken through the four segment-level stages.
InitSegment == df \in {<<r>> : r \in SegmentRows} /\ columns = RawColumns /\ ret = NoCall
NextSegment ==
    \/ SegmentAADT
    \/ SegmentPeak
    \/ SegmentCapacity
    \/ SegmentTruck
SpecSegment == InitSegment /\ [][NextSegment]_vars

\* The segment-level stages on a segment whose file may lack one lane field.
StageRows ==
    {r \in SegmentRows : r["AB_FLOW_DA"] = FInt(20000) /\ r["AB_FLOW_D1"] = FInt(20000)}
StageHeaders == {RawColumns} \cup {RawColumns \ {lane} : lane \in LaneCols}
InitStages ==
    \E r \in StageRows, cs \in StageHeaders :
        df = <<[c \in cs |-> r[c]]>> /\ columns = cs /\ ret = NoCall
SpecStages == InitStages /\ [][NextSegment]_vars

(***************************************************************************)
(* The reports of the analyzers (high-truck segments, truck composition,    *)
(* AM/PM comparisons, group capacity, LOS distribution) on tables of a few  *)
(* segments, taken through the segment-level stages in any order.           *)
(***************************************************************************)
\* Longest table of the report specification.
MaxReportRows == 3

\* The segments of the report tables: one without traffic and without AM
\* lanes; one of the same group, over capacity in the AM period, with more
\* traffic in the PM period and trucks of every class; and one of another
\* group, at capacity in the AM period, with more traffic in the AM period.
ReportRows ==
    {MkRow("N", "ML", <<0, 3>>, 0, 0, 0, 0, 0, 0, 0),
     [MkRow("N", "ML", <<1, 3>>, FInt(5000), FLit(601, 2), FLit(521, 4), FInt(90),
            FInt(9008), FInt(450), 1)
        EXCEPT !["AB_FLOW_ME"] = FLit(1001, 3), !["AB_FLOW_M1"] = FInt(70),
               !["AB_FLOW_H1"] = FLit(311, 4)],
     MkRow("S", "HV", <<1, 3>>, FInt(5000), 0, 0, 0, FInt(800), FInt(450), 0)}

ReportTables == UNION {[1..n -> ReportRows] : n \in 0..MaxReportRows}

\* Thresholds the callers pass, besides the truck share of a segment itself.
TruckThresholdArgs == {-FLit(1, 10), 0, FInt(15), FInt(100), FInt(100) + 1}

IdentifyHighTruck ==
    \E truck_pct_threshold \in TruckThresholdArgs \cup
            (IF "TRUCK_PCT" \in columns
             THEN {df[i]["TRUCK_PCT"] : i \in DOMAIN df} ELSE {}) :
        Apply(identify_high_truck_segments(df, columns, truck_pct_threshold))
AnalyzeTruckComposition == Apply(analyze_truck_composition(df, columns))
CompareCapacity == Apply(compare_am_pm_capacity(df, columns))
ComparePeaks == Apply(compare_am_pm_peaks(df, columns))
CompareTruckFlows == Apply(compare_am_pm_truck_flows(df, columns))

InitReports == df \in ReportTables /\ columns = RawColumns /\ ret = NoCall
NextReports ==
    \/ SegmentAADT
    \/ SegmentPeak
    \/ SegmentCapacity
    \/ SegmentTruck
    \/ GroupCapacity
    \/ LosDistribution
    \/ IdentifyHighTruck
    \/ AnalyzeTruckComposition
    \/ CompareCapacity
    \/ ComparePeaks
    \/ CompareTruckFlows
SpecReports == InitReports /\ [][NextReports]_vars

(***************************************************************************)
(* The loader and the orchestrator on directories of input files.  Neither  *)
(* keeps anything from one call to the next, so a behaviour is one call.    *)
(***************************************************************************)
\* Largest number of rows in a file.
MaxFileRows == 2

FileColumns == RawColumns \cup {"ID", "LENGTH"}

FileRow(id) ==
    ("ID" :> id) @@ ("LENGTH" :> FLit(5, 10)) @@ Profile(2, "N", "ML")

\* The full header, and headers with one required field or one period's
\* flow fields left out.
Headers ==
    {FileColumns}
    \cup {FileColumns \ {c} : c \in {DIRECTION_FIELD, TYPE_FIELD, "ID", "LENGTH"}}
    \cup {FileColumns \ (Range(f.auto) \cup Range(f.truck)) : f \in {AM_FIELDS, PM_FIELDS}}

CsvFile(header, n) ==
    [exists |-> TRUE, columns |-> header,
     rows |-> [i \in 1..n |-> [c \in header |-> FileRow(i)[c]]]]

InputFiles == {NoFile} \cup {CsvFile(h, n) : h \in Headers, n \in 0..MaxFileRows}

SectionIds == {1, 2}
Directories == [SectionIds -> InputFiles]

YearArgs == {2019, 2045}
\* Section 3 has no file in any directory.
SectionArgs == {Section(n) : n \in SectionIds \cup {3}}
SectionLists == UNION {[1..n -> SectionIds] : n \in 0..2}

LoadSectionData ==
    /\ ret.op = NoCall.op
    /\ \E dir \in Directories, year \in YearArgs, section \in SectionArgs :
           Return("load_section_data", <<dir, year, section>>,
                  load_section_data(dir, year, section))
AnalyzeSingleSection ==
    /\ ret.op = NoCall.op
    /\ \E dir \in Directories, year \in YearArgs, section \in SectionArgs :
           Return("analyze_single_section", <<dir, year, section>>,
                  analyze_single_section(dir, year, section))
AnalyzeMultipleSections ==
    /\ ret.op = NoCall.op
    /\ \E dir \in Directories, year \in YearArgs, sections \in SectionLists :
           Return("analyze_multiple_sections", <<dir, year, sections>>,
                  analyze_multiple_sections(dir, year, sections))

InitLoad == df = <<>> /\ columns = {} /\ ret = NoCall
NextLoad ==
    \/ LoadSectionData
    \/ AnalyzeSingleSection
    \/ AnalyzeMultipleSections
SpecLoad == InitLoad /\ [][NextLoad]_vars

(***************************************************************************)
(* Properties of calculate_segment_aadt                                    *)
(***************************************************************************)
\* The AADT stage has run on the table.
AadtDone == AADTColumns \subseteq columns

\* C1 as stated: after calculate_segment_aadt every row satisfies
\* TOTAL_AADT = AUTO_AADT + TRUCK_AADT exactly.
C1_ExactSum ==
    AadtDone =>
        \A i \in DOMAIN df :
            FAdd(df[i]["AUTO_AADT"], df[i]["TRUCK_AADT"]) = df[i]["TOTAL_AADT"]

\* C1 as amended: after calculate_segment_aadt, AUTO_AADT is the float64
\* difference TOTAL_AADT - TRUCK_AADT; AUTO_AADT + TRUCK_AADT equals TOTAL_AADT
\* exactly whenever that difference is representable, and is otherwise
\* TOTAL_AADT or one of the two floats next to it.
C1_SumWithinUlp ==
    AadtDone =>
        \A i \in DOMAIN df :
            /\ df[i]["AUTO_AADT"] = FSub(df[i]["TOTAL_AADT"], df[i]["TRUCK_AADT"])
            /\ Abs(FAdd(df[i]["AUTO_AADT"], df[i]["TRUCK_AADT"]) - df[i]["TOTAL_AADT"]) <= 1
            /\ ExactSub(df[i]["TOTAL_AADT"], df[i]["TRUCK_AADT"])
                  => FAdd(df[i]["AUTO_AADT"], df[i]["TRUCK_AADT"]) = df[i]["TOTAL_AADT"]

\* A segment with autos and trucks whose difference TOTAL_AADT - TRUCK_AADT
\* had to be rounded.
C1_Witness ==
    /\ AadtDone
    /\ \E i \in DOMAIN df :
          /\ df[i]["TRUCK_AADT"] > 0
          /\ df[i]["AUTO_AADT"] > 0
          /\ ~ExactSub(df[i]["TOTAL_AADT"], df[i]["TRUCK_AADT"])

\* Two floats agree within floating-point tolerance: at most two floats apart.
Close(x, y) == Abs(x - y) <= 2

\* C2: after calculate_segment_aadt every row with TOTAL_AADT > 0 has
\* TRUCK_PCT = 100 * TRUCK_AADT / TOTAL_AADT (within floating-point tolerance)
\* and every row with TOTAL_AADT = 0 has TRUCK_PCT = 0.
C2_TruckPctFormula ==
    AadtDone =>
        \A i \in DOMAIN df :
            /\ df[i]["TOTAL_AADT"] > 0 =>
                  Close(df[i]["TRUCK_PCT"],
                        FDiv(FMul(FInt(100), df[i]["TRUCK_AADT"]), df[i]["TOTAL_AADT"]))
            /\ df[i]["TOTAL_AADT"] = 0 => df[i]["TRUCK_PCT"] = 0

\* A segment with traffic, part of it trucks, after the AADT stage.
C2_Witness ==
    /\ AadtDone
    /\ \E i \in DOMAIN df :
          /\ df[i]["TRUCK_AADT"] > 0
          /\ df[i]["TRUCK_AADT"] < df[i]["TOTAL_AADT"]
          /\ df[i]["TRUCK_PCT"] > 0

\* C3: after calculate_segment_aadt, TRUCK_PCT lies in [0, 100] for every row
\* whose TOTAL_AADT > 0.
C3_TruckPctRange ==
    AadtDone =>
        \A i \in DOMAIN df :
            df[i]["TOTAL_AADT"] > 0 =>
                df[i]["TRUCK_PCT"] >= 0 /\ df[i]["TRUCK_PCT"] <= FInt(100)

\* A segment that carries only trucks: TRUCK_PCT is at the upper end, 100.
C3_Witness ==
    /\ AadtDone
    /\ \E i \in DOMAIN df :
          df[i]["TOTAL_AADT"] > 0 /\ df[i]["TRUCK_PCT"] = FInt(100)

(***************************************************************************)
(* Properties of get_los_from_vc                                           *)
(***************************************************************************)
\* The last call was get_los_from_vc.
LosCalled == ret.op = "get_los_from_vc"

\* The grade the specification's threshold table gives a V/C ratio.
LosByTable(vc) ==
    IF IsNaN(vc) THEN "N/A"
    ELSE IF XLe(vc, Fin(FLit(35, 100))) THEN "A"
    ELSE IF XLe(vc, Fin(FLit(54, 100))) THEN "B"
    ELSE IF XLe(vc, Fin(FLit(77, 100))) THEN "C"
    ELSE IF XLe(vc, Fin(FLit(93, 100))) THEN "D"
    ELSE IF XLe(vc, Fin(FLit(100, 100))) THEN "E"
    ELSE "F"

\* C4: get_los_from_vc(vc) returns the first grade in the order A..F whose
\* threshold (0.35, 0.54, 0.77, 0.93, 1.00, infinity) is >= vc, the thresholds
\* being inclusive upper bounds (0.35 -> A, 0.77 -> C, 0.93 -> D, 1.00 -> E,
\* above 1.00 -> F), and 'N/A' for a not-a-number vc.
C4_LosThresholds ==
    LosCalled =>
        /\ ret.status = "ok"
        /\ ret.value = LosByTable(ret.args[1])
        /\ ret.args[1] = Fin(FLit(35, 100)) => ret.value = "A"
        /\ ret.args[1] = Fin(FLit(77, 100)) => ret.value = "C"
        /\ ret.args[1] = Fin(FLit(93, 100)) => ret.value = "D"
        /\ ret.args[1] = Fin(FInt(1)) => ret.value = "E"
        /\ XGt(ret.args[1], Fin(FInt(1))) => ret.value = "F"
        /\ IsNaN(ret.args[1]) => ret.value = "N/A"

\* The lookup was asked for a ratio that sits exactly on a threshold.
C4_Witness ==
    LosCalled /\ ret.args[1] = Fin(FLit(93, 100)) /\ ret.value = "D"

\* Position of a grade in the order A < B < C < D < E < F.
GradeRank(g) ==
    CASE g = "A" -> 1 [] g = "B" -> 2 [] g = "C" -> 3
      [] g = "D" -> 4 [] g = "E" -> 5 [] g = "F" -> 6 [] OTHER -> 0

\* C5: get_los_from_vc is monotonic non-decreasing: for defined ratios
\* v1 <= v2 the grade of v1 is not worse than the grade of v2.
C5_LosMonotonic ==
    (LosCalled /\ ~IsNaN(ret.args[1])) =>
        \A v1 \in VcProbes :
            XLe(v1, ret.args[1]) =>
                /\ GradeRank(get_los_from_vc(v1)) >= 1
                /\ GradeRank(get_los_from_vc(v1)) <= GradeRank(ret.value)

\* A ratio graded C, above ratios that are graded A and B.
C5_Witness ==
    /\ LosCalled /\ ret.value = "C"
    /\ \E v1 \in VcProbes : XLt(v1, ret.args[1]) /\ get_los_from_vc(v1) = "B"
    /\ \E v1 \in VcProbes : XLt(v1, ret.args[1]) /\ get_los_from_vc(v1) = "A"

(***************************************************************************)
(* Properties of calculate_segment_capacity                                *)
(***************************************************************************)
\* calculate_segment_capacity(period) has run on the table.
CapacityDone(period) ==
    {period \o "_PCE_FLOW", period \o "_CAPACITY", period \o "_VC_RATIO",
     period \o "_LOS"} \subseteq columns

\* C6: after calculate_segment_capacity(period) every row's {period}_LOS is
\* one of A, B, C, D, E, F, 'N/A', and is 'N/A' if and only if the row's
\* {period}_VC_RATIO is not a number.
C6_LosDomain ==
    \A period \in {"AM", "PM"} :
        CapacityDone(period) =>
            \A i \in DOMAIN df :
                /\ df[i][period \o "_LOS"] \in {"A", "B", "C", "D", "E", "F", "N/A"}
                /\ df[i][period \o "_LOS"] = "N/A" <=> IsNaN(df[i][period \o "_VC_RATIO"])

\* A segment without AM lanes: no AM V/C ratio and AM LOS 'N/A', while its PM
\* level of service is a grade.
C6_Witness ==
    /\ CapacityDone("AM") /\ CapacityDone("PM")
    /\ \E i \in DOMAIN df :
          /\ df[i]["AM_CAPACITY"] = 0
          /\ df[i]["AM_LOS"] = "N/A"
          /\ df[i]["PM_LOS"] \in {"A", "B", "C", "D", "E", "F"}

(***************************************************************************)
(* Properties of calculate_vc_ratio                                        *)
(***************************************************************************)
\* The last call was calculate_vc_ratio, on a scalar or on a Series element.
VcRatioCalled == ret.op \in {"calculate_vc_ratio", "calculate_vc_ratio_series"}

\* C7: calculate_vc_ratio with capacity = 0 returns not-a-number for every
\* pce_flow: it does not raise and returns neither an infinity nor a number.
C7_ZeroCapacityNaN ==
    (VcRatioCalled /\ ret.args[2] = Fin(0)) =>
        ret.status = "ok" /\ IsNaN(ret.value) /\ ~IsInf(ret.value) /\ ~IsFin(ret.value)

\* The scalar function called with pce_flow = 5000 and capacity = 0.
C7_Witness ==
    /\ ret.op = "calculate_vc_ratio"
    /\ ret.args = <<Fin(FInt(5000)), Fin(0)>>
    /\ IsNaN(ret.value)

(***************************************************************************)
(* Properties of calculate_pce_flow                                        *)
(***************************************************************************)
\* The last call was calculate_pce_flow.
PceCalled == ret.op = "calculate_pce_flow"

\* auto * 1.0 + truck * 2.0 with auto = total_flow - truck_flow, in float64.
WeightedPce(total_flow, truck_flow) ==
    FAdd(FMul(FSub(total_flow, truck_flow), FLit(10, 10)),
         FMul(truck_flow, FLit(20, 10)))

\* C8 as stated: calculate_pce_flow(total_flow, truck_flow) equals
\* total_flow + truck_flow, which equals auto * 1.0 + truck * 2.0 with
\* auto = total_flow - truck_flow, for every total and truck flow.
C8_WeightedExact ==
    PceCalled =>
        /\ ret.value = FAdd(ret.args[1], ret.args[2])
        /\ ret.value = WeightedPce(ret.args[1], ret.args[2])

\* C8 as amended: calculate_pce_flow returns the float64 sum
\* total_flow + truck_flow; that sum equals auto * 1.0 + truck * 2.0 with
\* auto = total_flow - truck_flow whenever the difference total_flow -
\* truck_flow is representable, and is otherwise that value or one of the two
\* floats next to it.
C8_WeightedWithinUlp ==
    PceCalled =>
        /\ ret.status = "ok"
        /\ ret.value = FAdd(ret.args[1], ret.args[2])
        /\ Abs(ret.value - WeightedPce(ret.args[1], ret.args[2])) <= 1
        /\ ExactSub(ret.args[1], ret.args[2])
              => ret.value = WeightedPce(ret.args[1], ret.args[2])

\* A call with trucks among the traffic whose auto flow total_flow - truck_flow
\* had to be rounded.
C8_Witness ==
    /\ PceCalled
    /\ ret.args[2] > 0 /\ ret.args[2] < ret.args[1]
    /\ ~ExactSub(ret.args[1], ret.args[2])

(***************************************************************************)
(* Properties of the peak-hour conversion                                  *)
(***************************************************************************)
\* calculate_segment_peak_flows has run on the table.
PeakDone ==
    {"AM_PEAK_TOTAL", "AM_PEAK_AUTO", "AM_PEAK_TRUCK",
     "PM_PEAK_TOTAL", "PM_PEAK_AUTO", "PM_PEAK_TRUCK"} \subseteq columns

\* The float64 sum of three columns of a row, as DataFrame.sum(axis=1) adds them.
Sum3(row, a, b, c) == FAdd(FAdd(FAdd(0, row[a]), row[b]), row[c])

\* The peak columns of one period are factor times the sums of its raw columns.
PeakColumnsAre(row, period, factor, auto, truck) ==
    /\ row[period \o "_PEAK_AUTO"] = FMul(auto, factor)
    /\ row[period \o "_PEAK_TRUCK"] = FMul(truck, factor)
    /\ row[period \o "_PEAK_TOTAL"] = FMul(FAdd(auto, truck), factor)

\* C9: calculate_peak_hour_flow(period_flow, period) is period_flow * 0.40 for
\* 'AM' and period_flow * 0.30 for 'PM' (20000 gives 8000 and 6000), and after
\* calculate_segment_peak_flows every {period}_PEAK_{TOTAL|AUTO|TRUCK} is that
\* factor times the sum of the period's raw total, auto or truck flow columns.
C9_PeakFactors ==
    /\ \A x \in FlowProbes :
          /\ calculate_peak_hour_flow(x, "AM") = Ok(FMul(x, FLit(40, 100)))
          /\ calculate_peak_hour_flow(x, "PM") = Ok(FMul(x, FLit(30, 100)))
    /\ calculate_peak_hour_flow(FInt(20000), "AM") = Ok(FInt(8000))
    /\ calculate_peak_hour_flow(FInt(20000), "PM") = Ok(FInt(6000))
    /\ PeakDone =>
          \A i \in DOMAIN df :
              /\ PeakColumnsAre(df[i], "AM", FLit(40, 100),
                     Sum3(df[i], "AB_FLOW_DA", "AB_FLOW_SR", "AB_FLOW_S1"),
                     Sum3(df[i], "AB_FLOW_LI", "AB_FLOW_ME", "AB_FLOW_HE"))
              /\ PeakColumnsAre(df[i], "PM", FLit(30, 100),
                     Sum3(df[i], "AB_FLOW_D1", "AB_FLOW_S4", "AB_FLOW_S5"),
                     Sum3(df[i], "AB_FLOW_L1", "AB_FLOW_M1", "AB_FLOW_H1"))

\* A segment with 20000 autos and some trucks in each peak period, after the
\* peak stage: 8000 autos in the AM peak hour, 6000 in the PM peak hour.
C9_Witness ==
    /\ PeakDone
    /\ \E i \in DOMAIN df :
          /\ df[i]["AB_FLOW_DA"] = FInt(20000) /\ df[i]["AM_PEAK_AUTO"] = FInt(8000)
          /\ df[i]["AB_FLOW_D1"] = FInt(20000) /\ df[i]["PM_PEAK_AUTO"] = FInt(6000)
          /\ df[i]["AM_PEAK_TRUCK"] > 0 /\ df[i]["PM_PEAK_TRUCK"] > 0

(***************************************************************************)
(* Properties of the group-level operations                                *)
(***************************************************************************)
\* The last call was a group-level operation.
GroupCalled ==
    ret.op \in {"calculate_group_average_aadt", "calculate_group_average_peak",
                "calculate_group_capacity", "calculate_group_truck_metrics"}

\* No row of the table has the requested direction and facility type.
NoRowMatches ==
    \A i \in DOMAIN df : ~(df[i]["DIRECT"] = ret.args[1] /\ df[i]["TYPE"] = ret.args[2])

\* The call passes the operation's own argument and column checks.
GroupCallChecked ==
    CASE ret.op = "calculate_group_average_peak" ->
             /\ ret.args[3] \in {"AM", "PM"}
             /\ (ret.args[3] \o "_PEAK_TOTAL") \in columns
      [] ret.op = "calculate_group_capacity" ->
             /\ ret.args[3] \in {"AM", "PM"}
             /\ CapacityDone(ret.args[3])
      [] ret.op = "calculate_group_truck_metrics" ->
             {"TRUCK_AADT", "TRUCK_PCT", "TRUCK_INTENSITY",
              "AM_TRUCK_RATIO", "PM_TRUCK_RATIO"} \subseteq columns
      [] OTHER -> TRUE

\* C10 as stated: the four group-level operations return None, and never
\* raise, when no segment row matches the requested combination.
C10_NoneWhenNoMatch ==
    (GroupCalled /\ NoRowMatches) => ret.status = "None"

\* C10 as amended: when no segment row matches the requested combination,
\* calculate_group_average_aadt returns None, and the other three operations
\* return None provided the call passes their checks (period 'AM' or 'PM', the
\* stage's columns present); a call that fails a check raises ValueError
\* whether or not a row matches.
C10_NoneWhenChecked ==
    (GroupCalled /\ NoRowMatches) =>
        /\ GroupCallChecked => ret.status = "None"
        /\ ~GroupCallChecked => ret.status = "ValueError"

\* A group operation asked, on a table with segments and with the capacity
\* stage done, for a combination no segment has.
C10_Witness ==
    /\ ret.op = "calculate_group_capacity"
    /\ Len(df) > 0 /\ NoRowMatches /\ GroupCallChecked
    /\ ret.status = "None"

(***************************************************************************)
(* Properties of identify_bottlenecks                                      *)
(***************************************************************************)
\* The last call was identify_bottlenecks.
BottlenecksCalled == ret.op = "identify_bottlenecks"

\* The call's arguments are in their domains: period AM or PM, threshold in
\* [0, 3.0].
BottleneckArgsValid ==
    /\ ret.args[1] \in {"AM", "PM"}
    /\ ret.args[2] >= 0 /\ ret.args[2] <= FInt(3)

\* The positions of the rows whose ratio is defined and above the threshold.
RowsAbove(period, vc_threshold) ==
    {i \in DOMAIN df :
        /\ IsFin(df[i][period \o "_VC_RATIO"])
        /\ df[i][period \o "_VC_RATIO"].v > vc_threshold}

\* C11: identify_bottlenecks(period, vc_threshold) with a threshold in
\* [0, 3.0], called after the capacity stage, returns exactly the rows whose
\* {period}_VC_RATIO is strictly greater than vc_threshold, in descending
\* order of {period}_VC_RATIO.
C11_BottlenecksReturned ==
    (BottlenecksCalled /\ BottleneckArgsValid /\ CapacityDone(ret.args[1])) =>
        /\ ret.status = "ok"
        /\ {ret.value[j] : j \in DOMAIN ret.value} = RowsAbove(ret.args[1], ret.args[2])
        /\ \A j, k \in DOMAIN ret.value :
              j < k => df[ret.value[j]][ret.args[1] \o "_VC_RATIO"].v
                          >= df[ret.value[k]][ret.args[1] \o "_VC_RATIO"].v

\* C12: identify_bottlenecks raises ValueError for every vc_threshold < 0 or
\* > 3.0 and for every period outside {AM, PM}, and leaves the table as it
\* was; the boundary thresholds 0 and 3.0 pass the argument check (with the
\* capacity stage done the call does not raise ValueError).
C12_BottleneckArguments ==
    [][(ret'.op = "identify_bottlenecks") =>
          /\ ~(/\ ret'.args[1] \in {"AM", "PM"}
               /\ ret'.args[2] >= 0 /\ ret'.args[2] <= FInt(3))
                => ret'.status = "ValueError" /\ df' = df /\ columns' = columns
          /\ (/\ ret'.args[1] \in {"AM", "PM"}
              /\ ret'.args[2] \in {0, FInt(3)}
              /\ (ret'.args[1] \o "_VC_RATIO") \in columns)
                => ret'.status # "ValueError"]_vars

\* A call with the threshold just above 3.0 on a table with segments whose
\* capacity stage is done: refused.
C12_Witness ==
    /\ BottlenecksCalled
    /\ ret.args[1] = "AM" /\ ret.args[2] = FInt(3) + 1
    /\ Len(df) > 0 /\ CapacityDone("AM")
    /\ ret.status = "ValueError"

(***************************************************************************)
(* Properties of the loader and the orchestrator                           *)
(***************************************************************************)
\* The file a load or single-section call was made for.
CalledFile == FileOf(ret.args[1], ret.args[3])

\* The fields a file must have: direction, facility type, ID, LENGTH, a flow
\* field of the AM period and one of the PM period.
HasRequiredFields(cs) ==
    /\ {"DIRECT", "TYPE", "ID", "LENGTH"} \subseteq cs
    /\ cs \cap {"AB_FLOW_DA", "AB_FLOW_SR", "AB_FLOW_S1",
                "AB_FLOW_LI", "AB_FLOW_ME", "AB_FLOW_HE"} # {}
    /\ cs \cap {"AB_FLOW_D1", "AB_FLOW_S4", "AB_FLOW_S5",
                "AB_FLOW_L1", "AB_FLOW_M1", "AB_FLOW_H1"} # {}

\* A file the whole analysis can be run on.
Analysable(file) ==
    file.exists /\ HasRequiredFields(file.columns) /\ Len(file.rows) > 0

\* C13: the stages run in order on a loaded section (load, segment AADT,
\* peak flows, capacity of all periods, truck metrics) keep the number of
\* rows, so that the truck summary reports total_segments equal to the number
\* of rows loaded, and an avg_truck_pct between the smallest and the largest
\* TRUCK_PCT of the rows.
C13_PipelineSummary ==
    (ret.op = "analyze_single_section" /\ Analysable(CalledFile)) =>
        /\ ret.status = "ok"
        /\ Len(ret.value.df) = Len(CalledFile.rows)
        /\ ret.value.stats.truck_stats.total_segments = Len(CalledFile.rows)
        /\ XLe(Fin(ret.value.stats.truck_stats.min_truck_pct),
               Fin(ret.value.stats.truck_stats.avg_truck_pct))
        /\ XLe(Fin(ret.value.stats.truck_stats.avg_truck_pct),
               Fin(ret.value.stats.truck_stats.max_truck_pct))

\* C14: analyze_multiple_sections goes through every section of the list,
\* whether or not an earlier one failed, and returns a mapping with an entry
\* for exactly the sections whose analysis succeeds.
C14_BatchEntries ==
    ret.op = "analyze_multiple_sections" =>
        /\ ret.status = "ok"
        /\ ret.value.results \cup ret.value.failed = Range(ret.args[3])
        /\ \A s \in Range(ret.args[3]) :
               s \in ret.value.results <=> Analysable(FileOf(ret.args[1], Section(s)))

\* C15: load_section_data raises the schema error (ValueError) for a file
\* that lacks a required field, and for a file with every required field it
\* returns the file's rows with YEAR and SECTION set on each.
C15_LoadValidates ==
    (ret.op = "load_section_data" /\ CalledFile.exists) =>
        IF HasRequiredFields(CalledFile.columns)
        THEN /\ ret.status = "ok"
             /\ Len(ret.value.rows) = Len(CalledFile.rows)
             /\ \A i \in DOMAIN ret.value.rows :
                    /\ ret.value.rows[i]["YEAR"] = ret.args[2]
                    /\ ret.value.rows[i]["SECTION"] = ret.args[3]
        ELSE ret.status = "ValueError"

(***************************************************************************)
(* Properties of the period argument and of the stage preconditions        *)
(***************************************************************************)
\* The methods of the analyzers that take a period (as their last argument).
PeriodOps ==
    {"calculate_segment_capacity", "calculate_group_capacity",
     "calculate_all_groups_capacity", "get_los_distribution",
     "calculate_group_average_peak", "calculate_all_groups_peak"}

\* The call just made was one of them, with a period that is neither AM nor PM.
BadPeriodCall(r) == r.op \in PeriodOps /\ r.args[Len(r.args)] \notin {"AM", "PM"}

\* C16: every operation that takes a period raises ValueError for a period
\* other than AM and PM, and does so before it adds or changes any column:
\* the analyzers' methods leave the table as it was, and the scalar
\* calculate_peak_hour_flow returns no flow.
C16_PeriodRefused ==
    [][/\ BadPeriodCall(ret') =>
              ret'.status = "ValueError" /\ df' = df /\ columns' = columns
       /\ \A period \in PeriodArgs \ {"AM", "PM"}, period_flow \in FlowProbes :
              calculate_peak_hour_flow(period_flow, period) = Raise("ValueError")]_vars

\* A period was refused on a table that has the columns of every stage.
C16_Witness ==
    /\ BadPeriodCall(ret) /\ ret.status = "ValueError"
    /\ AADTColumns \cup PeakColumns \cup CapColumns("AM") \cup CapColumns("PM") \subseteq columns
    /\ Len(df) > 0

\* The upstream stages of the truck stage have run on a table with every
\* lane field.
TruckUpstreamDone(cs) ==
    {"TOTAL_AADT", "AUTO_AADT", "TRUCK_AADT", "TRUCK_PCT",
     "AM_PEAK_TOTAL", "AM_PEAK_AUTO", "AM_PEAK_TRUCK",
     "PM_PEAK_TOTAL", "PM_PEAK_AUTO", "PM_PEAK_TRUCK",
     "AB_AMLANES", "AB_PMLANES", "AB_MDLANES", "AB_EVELANE", "AB_NTLANES"} \subseteq cs

\* What calculate_segment_capacity(period) needs: the period's peak total and
\* peak truck flows and its lane field.
CapacityInputs(period) ==
    {period \o "_PEAK_TOTAL", period \o "_PEAK_TRUCK", "AB_" \o period \o "LANES"}

\* C17: in any order of stage calls, calculate_segment_capacity(period) raises
\* ValueError exactly when a peak column of the period or its lane column is
\* absent and succeeds otherwise; calculate_segment_truck_metrics raises
\* ValueError whenever TRUCK_AADT, TRUCK_PCT or a lane field is absent, and
\* succeeds once the AADT and peak stages have run.
C17_StagePreconditions ==
    [][/\ (ret'.op = "calculate_segment_capacity" /\ ret'.args[1] \in {"AM", "PM"}) =>
              ret'.status = IF CapacityInputs(ret'.args[1]) \subseteq columns
                            THEN "ok" ELSE "ValueError"
       /\ ret'.op = "calculate_segment_truck_metrics" =>
              /\ ~({"TRUCK_AADT", "TRUCK_PCT", "AB_AMLANES", "AB_PMLANES", "AB_MDLANES",
                    "AB_EVELANE", "AB_NTLANES"} \subseteq columns)
                     => ret'.status = "ValueError"
              /\ TruckUpstreamDone(columns) => ret'.status = "ok"]_vars

\* The truck stage was refused for a lane field it does not read, after the
\* AADT and peak stages.
C17_Witness ==
    /\ ret.op = "calculate_segment_truck_metrics" /\ ret.status = "ValueError"
    /\ AADTColumns \cup PeakColumns \subseteq columns
    /\ "AB_AMLANES" \in columns /\ "AB_NTLANES" \notin columns

(***************************************************************************)
(* Frame of the segment-level stages                                       *)
(***************************************************************************)
StageOps ==
    {"calculate_segment_aadt", "calculate_segment_peak_flows",
     "calculate_segment_capacity", "calculate_segment_truck_metrics"}

AllGroupsOps ==
    {"calculate_all_groups", "calculate_all_groups_peak",
     "calculate_all_groups_capacity", "calculate_all_groups_truck"}

\* The aggregator just called has what it asks for: a period that is AM or PM
\* and the columns of the stage it summarises.
AllGroupsReady ==
    CASE ret.op = "calculate_all_groups" -> AADTColumns \subseteq columns
      [] ret.op = "calculate_all_groups_peak" ->
             ret.args[1] \in {"AM", "PM"} /\ PeakColumns \subseteq columns
      [] ret.op = "calculate_all_groups_capacity" ->
             ret.args[1] \in {"AM", "PM"} /\ CapColumns(ret.args[1]) \subseteq columns
      [] ret.op = "calculate_all_groups_truck" -> TruckMetricColumns \subseteq columns
      [] OTHER -> FALSE

\* The (direction, facility type) combinations that have a segment.
GroupsPresent == {<<df[i]["DIRECT"], df[i]["TYPE"]>> : i \in DOMAIN df}

SumSegments(rows) ==
    LET sum[n \in 0..Len(rows)] == IF n = 0 THEN 0 ELSE sum[n - 1] + rows[n].num_segments
    IN  sum[Len(rows)]

\* C19: an all-groups aggregator returns a summary with exactly one row for
\* each (direction, facility type) combination that has a segment and no row
\* for any other, each row counting the segments of its combination, so the
\* num_segments of the summary add up to the number of rows of the table.
C19_OneRowPerGroup ==
    (ret.op \in AllGroupsOps /\ AllGroupsReady) =>
        /\ ret.status = "ok"
        /\ {<<ret.value[k].direction, ret.value[k].type>> : k \in DOMAIN ret.value}
               = GroupsPresent
        /\ Len(ret.value) = Cardinality(GroupsPresent)
        /\ \A k \in DOMAIN ret.value :
               ret.value[k].num_segments =
                   Cardinality({i \in DOMAIN df :
                                   /\ df[i]["DIRECT"] = ret.value[k].direction
                                   /\ df[i]["TYPE"] = ret.value[k].type})
        /\ SumSegments(ret.value) = Len(df)

(***************************************************************************)
(* Properties of calculate_segment_capacity                                *)
(***************************************************************************)
\* C20: once calculate_segment_capacity(period) has run, every row has
\* {period}_CAPACITY = lane count of the period * 2000, {period}_PCE_FLOW =
\* {period}_PEAK_TOTAL + {period}_PEAK_TRUCK, and {period}_VC_RATIO =
\* PCE_FLOW / CAPACITY where the capacity is not zero, undefined where it is.
C20_CapacityFormulas ==
    \A period \in {"AM", "PM"} :
        ({period \o "_PCE_FLOW", period \o "_CAPACITY", period \o "_VC_RATIO"}
             \subseteq columns) =>
            \A i \in DOMAIN df :
                LET row == df[i]
                    capacity == FMul(row["AB_" \o period \o "LANES"], FInt(2000))
                    pce_flow == FAdd(row[period \o "_PEAK_TOTAL"], row[period \o "_PEAK_TRUCK"])
                IN  /\ row[period \o "_CAPACITY"] = capacity
                    /\ row[period \o "_PCE_FLOW"] = pce_flow
                    /\ row[period \o "_VC_RATIO"] =
                           IF capacity = 0 THEN NaN ELSE Fin(FDiv(pce_flow, capacity))

\* A segment with no AM lane and three PM lanes, with flow in both periods,
\* after the capacity stage of both periods.
C20_Witness ==
    /\ CapColumns("AM") \cup CapColumns("PM") \subseteq columns
    /\ df[1]["AM_CAPACITY"] = 0 /\ df[1]["AM_PCE_FLOW"] > 0 /\ IsNaN(df[1]["AM_VC_RATIO"])
    /\ df[1]["PM_CAPACITY"] = FInt(6000) /\ df[1]["PM_PEAK_TRUCK"] > 0
    /\ IsFin(df[1]["PM_VC_RATIO"]) /\ df[1]["PM_VC_RATIO"].v > 0


\* C21: after calculate_segment_truck_metrics every row has TRUCK_INTENSITY =
\* TRUCK_AADT / AM lane count when the AM lane count is positive and 0
\* otherwise, whatever the PM lane count is.
C21_TruckIntensity ==
    "TRUCK_INTENSITY" \in columns =>
        \A i \in DOMAIN df :
            df[i]["TRUCK_INTENSITY"] =
                IF df[i]["AB_AMLANES"] > 0
                THEN FDiv(df[i]["TRUCK_AADT"], df[i]["AB_AMLANES"])
                ELSE 0

\* A segment with trucks, no AM lane and three PM lanes, after the truck stage.
C21_Witness ==
    /\ ret.op = "calculate_segment_truck_metrics" /\ ret.status = "ok"
    /\ \E i \in DOMAIN df :
          /\ df[i]["AB_AMLANES"] = 0
          /\ df[i]["AB_PMLANES"] > 0
          /\ df[i]["TRUCK_AADT"] > 0
          /\ df[i]["TRUCK_INTENSITY"] = 0

\* C22: after calculate_segment_truck_metrics, for AM and PM every row has
\* {period}_TRUCK_RATIO = 100 * {period}_PEAK_TRUCK / {period}_PEAK_TOTAL
\* (within floating-point tolerance) when {period}_PEAK_TOTAL > 0 and 0
\* otherwise; the ratio is always a finite number.
C22_TruckRatio ==
    \A period \in {"AM", "PM"} :
        (period \o "_TRUCK_RATIO") \in columns =>
            \A i \in DOMAIN df :
                LET total == df[i][PeakCol(period, "total")]
                    truck == df[i][PeakCol(period, "truck")]
                    ratio == df[i][period \o "_TRUCK_RATIO"]
                IN  /\ ratio \in Int   \* a finite float, neither NaN nor an infinity
                    /\ total > 0 => Close(ratio, FDiv(FMul(FInt(100), truck), total))
                    /\ ~(total > 0) => ratio = 0

\* After the truck stage, a segment with peak-hour trucks among its traffic.
C22_Witness ==
    /\ ret.op = "calculate_segment_truck_metrics" /\ ret.status = "ok"
    /\ \E i \in DOMAIN df :
          /\ df[i]["PM_PEAK_TOTAL"] > df[i]["PM_PEAK_TRUCK"]
          /\ df[i]["PM_PEAK_TRUCK"] > 0
          /\ df[i]["PM_TRUCK_RATIO"] > 0


\* A report has been asked for and returned after all four stages.
ReportReturned(op) ==
    /\ ret.op = op /\ ret.status = "ok"
    /\ TruckMetricColumns \subseteq columns
    /\ CapColumns("AM") \cup CapColumns("PM") \subseteq columns


\* C23: identify_high_truck_segments(threshold), called after the truck
\* stage, returns for every threshold in [0, 100] (0 and 100 included) exactly
\* the rows whose TRUCK_PCT is strictly greater than the threshold, in
\* descending order of TRUCK_PCT, and raises ValueError for every threshold
\* below 0 or above 100.
C23_HighTruckSegments ==
    ret.op = "identify_high_truck_segments" =>
        /\ (ret.args[1] < 0 \/ ret.args[1] > FInt(100)) => ret.status = "ValueError"
        /\ (/\ ret.args[1] >= 0 /\ ret.args[1] <= FInt(100)
            /\ HighTruckColumns \subseteq columns)
              => /\ ret.status = "ok"
                 /\ {ret.value[j] : j \in DOMAIN ret.value}
                        = {i \in DOMAIN df : df[i]["TRUCK_PCT"] > ret.args[1]}
                 /\ \A j, k \in DOMAIN ret.value :
                        j < k => /\ ret.value[j] # ret.value[k]
                                 /\ df[ret.value[j]]["TRUCK_PCT"]
                                        >= df[ret.value[k]]["TRUCK_PCT"]

\* Of three segments the one whose truck share is the threshold is left out
\* and the other two are returned with the later one of the table first.
C23_Witness ==
    /\ ret.op = "identify_high_truck_segments" /\ ret.status = "ok"
    /\ Len(df) = 3 /\ Len(ret.value) = 2
    /\ ret.value[1] > ret.value[2]
    /\ df[ret.value[1]]["TRUCK_PCT"] > df[ret.value[2]]["TRUCK_PCT"]
    /\ \E i \in DOMAIN df : df[i]["TRUCK_PCT"] = ret.args[1]


\* The three percentage shares of one period's entry, added up.
ShareSum(entry) == FAdd(FAdd(entry.lhdt_pct, entry.mhdt_pct), entry.hhdt_pct)

CompareOps == {"compare_am_pm_capacity", "compare_am_pm_peaks", "compare_am_pm_truck_flows"}

\* The comparison just called has the columns of both periods it compares.
CompareReady ==
    CASE ret.op = "compare_am_pm_capacity" ->
             CapColumns("AM") \cup CapColumns("PM") \subseteq columns
      [] ret.op = "compare_am_pm_peaks" -> PeakColumns \subseteq columns
      [] ret.op = "compare_am_pm_truck_flows" ->
             PeakColumns \cup TruckMetricColumns \subseteq columns
      [] OTHER -> FALSE

\* A row of a comparison: its group, the AM and the PM value compared, their
\* difference and the label.
Compared(row) ==
    CASE ret.op = "compare_am_pm_capacity" ->
             [group |-> <<row.direction, row.type>>, am |-> row.am_vc_ratio,
              pm |-> row.pm_vc_ratio, diff |-> row.vc_diff, label |-> row.worse_period]
      [] ret.op = "compare_am_pm_peaks" ->
             [group |-> <<row.direction, row.type>>, am |-> row.am_peak,
              pm |-> row.pm_peak, diff |-> row.peak_diff, label |-> row.dominant_period]
      [] OTHER ->
             [group |-> <<row.DIRECT, row.TYPE>>, am |-> row.AM_PEAK_TRUCK,
              pm |-> row.PM_PEAK_TRUCK, diff |-> row.TRUCK_PEAK_DIFF,
              label |-> row.higher_truck_period]

\* The rows of a comparison are one per group with a segment, each with a
\* non-negative difference and the label of the greater value.
ComparisonSound(rows) ==
    /\ {Compared(rows[k]).group : k \in DOMAIN rows} = GroupsPresent
    /\ Len(rows) = Cardinality(GroupsPresent)
    /\ \A k \in DOMAIN rows :
           LET c == Compared(rows[k])
           IN  /\ XLe(Fin(0), c.diff)
               /\ c.label = "AM" <=> XGt(c.am, c.pm)
               /\ c.label = "PM" <=> XGt(c.pm, c.am)
               /\ c.label = "EQUAL" <=> c.am = c.pm /\ ~IsNaN(c.am)

\* C25: compare_am_pm_capacity, compare_am_pm_peaks and
\* compare_am_pm_truck_flows, called after the stages they compare, return
\* one row per (direction, facility type) group with a non-negative absolute
\* difference |AM - PM| and the label 'AM' exactly when the AM value is
\* greater, 'PM' exactly when the PM value is greater and 'EQUAL' exactly when
\* the two are equal.
C25_Comparisons ==
    (ret.op \in CompareOps /\ CompareReady) =>
        ret.status = "ok" /\ ComparisonSound(ret.value)

\* The comparisons on a table with a segment in which every group has a V/C
\* ratio in both periods.
ComparisonsWhenDefined ==
    (/\ ret.op \in CompareOps /\ CompareReady
     /\ Len(df) > 0
     /\ ret.op = "compare_am_pm_capacity" =>
            \A g \in GroupsPresent, period \in {"AM", "PM"} :
                \E i \in DOMAIN df :
                    /\ <<df[i]["DIRECT"], df[i]["TYPE"]>> = g
                    /\ IsFin(df[i][CapCol(period, "VC_RATIO")]))
        => ret.status = "ok" /\ ComparisonSound(ret.value)


\* A capacity comparison that labels a group 'EQUAL' although its segments
\* have no AM lanes and so no AM V/C ratio to compare.
UndefinedLabelledEqual ==
    /\ ret.op = "compare_am_pm_capacity" /\ ret.status = "ok"
    /\ \E k \in DOMAIN ret.value :
           /\ IsNaN(ret.value[k].am_vc_ratio) /\ IsFin(ret.value[k].pm_vc_ratio)
           /\ IsNaN(ret.value[k].vc_diff)
           /\ ret.value[k].worse_period = "EQUAL"


\* The grades a segment can have, and the sum of the counts of a grade -> count
\* mapping.
Grades == <<"A", "B", "C", "D", "E", "F", "N/A">>
CountSum(counts) ==
    LET sum[n \in 0..Len(Grades)] ==
            IF n = 0 THEN 0
            ELSE sum[n - 1] + (IF Grades[n] \in DOMAIN counts THEN counts[Grades[n]] ELSE 0)
    IN  sum[Len(Grades)]

\* C26: for a non-empty group calculate_group_capacity returns los_counts
\* whose counts add up to num_segments, and a dominant_los that is a grade of
\* maximal count.
C26_GroupLosCounts ==
    (ret.op = "calculate_group_capacity" /\ ret.status = "dict") =>
        /\ ret.value.num_segments
               = Cardinality(GroupRows(df, ret.args[1], ret.args[2]))
        /\ ret.value.num_segments > 0
        /\ DOMAIN ret.value.los_counts \subseteq Range(Grades)
        /\ CountSum(ret.value.los_counts) = ret.value.num_segments
        /\ ret.value.dominant_los \in DOMAIN ret.value.los_counts
        /\ \A g \in DOMAIN ret.value.los_counts :
               ret.value.los_counts[g] <= ret.value.los_counts[ret.value.dominant_los]

\* A group of three segments, two of one grade and, first in the table, one
\* of another.
C26_Witness ==
    /\ ret.op = "calculate_group_capacity" /\ ret.status = "dict"
    /\ ret.value.num_segments = 3
    /\ Cardinality(DOMAIN ret.value.los_counts) = 2
    /\ ret.value.los_counts[ret.value.dominant_los] = 2
    /\ df[1][CapCol(ret.args[3], "LOS")] # ret.value.dominant_los


(***************************************************************************)
(* Repeating the segment-level stages                                      *)
(***************************************************************************)
\* The stage just called, called once more on the analyzer.
StageAgain ==
    CASE ret.op = "calculate_segment_aadt" -> calculate_segment_aadt(df, columns)
      [] ret.op = "calculate_segment_peak_flows" -> calculate_segment_peak_flows(df, columns)
      [] ret.op = "calculate_segment_capacity" ->
             calculate_segment_capacity(df, columns, ret.args[1])
      [] ret.op = "calculate_segment_truck_metrics" ->
             calculate_segment_truck_metrics(df, columns)

\* The table a run of the stages in pipeline order leaves of the raw table d.
PipelineTable(d) ==
    LET aadt == calculate_segment_aadt(d, RawColumns)
        peak == calculate_segment_peak_flows(aadt.df, aadt.columns)
        am == calculate_segment_capacity(peak.df, peak.columns, "AM")
        pm == calculate_segment_capacity(am.df, am.columns, "PM")
    IN  calculate_segment_truck_metrics(pm.df, pm.columns).df

AllStagesDone ==
    AADTColumns \cup PeakColumns \cup CapColumns("AM") \cup CapColumns("PM")
        \cup TruckMetricColumns \subseteq columns

\* C27: a segment-level stage called a second time on the same analyzer
\* leaves the table (and returns or raises) as the first call did, and the
\* table with all stages done is the one a pipeline run on the same input
\* leaves, whatever calls led to it.
C27_StagesIdempotent ==
    /\ ret.op \in StageOps =>
           StageAgain = [df |-> df, columns |-> columns, ret |-> ret]
    /\ AllStagesDone =>
           df = PipelineTable([i \in DOMAIN df |-> [c \in RawColumns |-> df[i][c]]])

\* The peak stage called again after the capacity stage had used its columns,
\* on a segment with AM traffic, all stages done.
C27_Witness ==
    /\ ret.op = "calculate_segment_peak_flows" /\ ret.status = "ok"
    /\ AllStagesDone
    /\ df[1]["AM_PEAK_TOTAL"] > 0


(***************************************************************************)
(* The two paths of calculate_vc_ratio                                     *)
(***************************************************************************)
\* C28: the scalar path and the Series path of calculate_vc_ratio agree: for
\* every pce_flow and every capacity, zero and negative capacities included,
\* a one-element column gives the same number, or undefined, as the scalar.
C28_PathsAgree ==
    ret.op \in {"calculate_vc_ratio", "calculate_vc_ratio_series"} =>
        /\ ret.value \in {calculate_vc_ratio(ret.args[1], ret.args[2]),
                          calculate_vc_ratio_series(ret.args[1], ret.args[2])}
        /\ calculate_vc_ratio(ret.args[1], ret.args[2])
               = calculate_vc_ratio_series(ret.args[1], ret.args[2])

\* The two paths on every capacity that is not negative.
PathsAgreeFromZero ==
    (/\ ret.op \in {"calculate_vc_ratio", "calculate_vc_ratio_series"}
     /\ ~XLt(ret.args[2], Fin(0)))
        => calculate_vc_ratio(ret.args[1], ret.args[2])
               = calculate_vc_ratio_series(ret.args[1], ret.args[2])


(***************************************************************************)
(* A capacity stage that raises                                            *)
(***************************************************************************)
\* C29: a capacity stage that fails leaves the analyzer's table unchanged:
\* whenever calculate_segment_capacity(period) raises (invalid period, missing
\* peak-flow columns or missing lane column), none of {period}_PCE_FLOW,
\* {period}_CAPACITY, {period}_VC_RATIO and {period}_LOS has been added.
C29_FailedCapacityUnchanged ==
    [][(ret'.op = "calculate_segment_capacity" /\ ret'.status # "ok") =>
           /\ columns' = columns
           /\ df' = df]_vars

\* The capacity stage refuses a call without touching the table when the
\* period is invalid or a peak-flow column is missing.
RefusedBeforeWriting ==
    [][(/\ ret'.op = "calculate_segment_capacity" /\ ret'.status # "ok"
        /\ \/ ret'.args[1] \notin {"AM", "PM"}
           \/ ~({PeakCol(ret'.args[1], "total"), PeakCol(ret'.args[1], "truck")}
                    \subseteq columns))
           => columns' = columns /\ df' = df]_vars


(***************************************************************************)
(* The LOS distribution                                                    *)
(***************************************************************************)
\* C30: in the result of get_los_distribution(period), segments_over_capacity
\* (the rows with {period}_VC_RATIO > 1) is the count of grade 'F' in
\* los_counts, and total_segments is the sum of all counts of los_counts,
\* 'N/A' included.
C30_OverCapacityIsF ==
    (ret.op = "get_los_distribution" /\ ret.status = "ok") =>
        /\ ret.value.segments_over_capacity
               = Cardinality({i \in DOMAIN df :
                                 XGt(df[i][CapCol(ret.args[1], "VC_RATIO")], Fin(FInt(1)))})
        /\ ret.value.segments_over_capacity
               = IF "F" \in DOMAIN ret.value.los_counts
                 THEN ret.value.los_counts["F"] ELSE 0
        /\ DOMAIN ret.value.los_counts \subseteq Range(Grades)
        /\ ret.value.total_segments = Len(df)
        /\ ret.value.total_segments = CountSum(ret.value.los_counts)

\* Three segments: one over capacity, one exactly at capacity and one without
\* lanes.
C30_Witness ==
    /\ ret.op = "get_los_distribution" /\ ret.status = "ok"
    /\ ret.value.total_segments = 3
    /\ ret.value.segments_over_capacity = 1
    /\ DOMAIN ret.value.los_counts = {"E", "F", "N/A"}
    /\ \E i \in DOMAIN df : df[i][CapCol(ret.args[1], "VC_RATIO")] = Fin(FInt(1))

=============================================================================
